---- MODULE Spec2Model ----
(***************************************************************************)
(* Model of the Gemini web-RPC provider of bb1/ai-cli                      *)
(* (GeminiProvider: getCookieHeader, updateCookies, getSNlM0e,             *)
(* callGeminiAPI, generate) together with the part of config.ts it uses    *)
(* (saveConfig).                                                           *)
(*                                                                         *)
(* Strings are sequences of tokens.  The separator characters the code     *)
(* splits or scans on (";", "=", the double quote, the key literals of the *)
(* bootstrap page) are tokens of their own; every other token stands for a *)
(* run of characters that holds none of them.                              *)
(***************************************************************************)
EXTENDS Integers, Sequences, FiniteSets, TLC

\* ------------------------------------------------------------------ bounds
MaxTurns == 2            \* calls of generate() started over the client's lifetime
MaxSetCookies == 2       \* Set-Cookie entries carried by one response
MaxCommands == 2         \* commands one LLM response or one batch holds

\* ------------------------------------------------------------- vocabulary
Callers == {"c1", "c2"}

PSID == <<"__Secure-1PSID">>
PSIDTS == <<"__Secure-1PSIDTS">>
NID == <<"NID">>

Semi == ";"
Eq == "="
Quote == "\""
KeySN == "\"SNlM0e\":\""
KeyBL == "\"cfb2h\":\""
BLPrefix == "boq_assistant-bard-web-server_"
DefaultBL == <<BLPrefix, "20240519.16_p0">>

BootstrapURL == "https://gemini.google.com/app"
StreamGenerateURL == "https://gemini.google.com/_/BardChatUi/data/assistant.lamda.BardFrontendService/StreamGenerate?"

\* ---------------------------------------------------------- string helpers
Contains(s, tok) == \E i \in 1..Len(s) : s[i] = tok

\* s.split(sep): the pieces between the occurrences of sep (never empty list)
RECURSIVE SplitAcc(_, _, _)
SplitAcc(s, sep, cur) ==
    IF s = <<>> THEN <<cur>>
    ELSE IF Head(s) = sep THEN <<cur>> \o SplitAcc(Tail(s), sep, <<>>)
    ELSE SplitAcc(Tail(s), sep, Append(cur, Head(s)))

Split(s, sep) == SplitAcc(s, sep, <<>>)

\* parts.join(sep)
RECURSIVE Join(_, _)
Join(parts, sep) ==
    IF parts = <<>> THEN <<>>
    ELSE IF Len(parts) = 1 THEN parts[1]
    ELSE parts[1] \o <<sep>> \o Join(Tail(parts), sep)

\* ------------------------------------------------------------ cookie map
\* config.gemini.cookies is a Record<string,string>: here the sequence of its
\* entries in insertion order (the order Object.entries yields).
HasCookie(cookies, name) == \E i \in 1..Len(cookies) : cookies[i].name = name

CookieValue(cookies, name) ==
    cookies[CHOOSE i \in 1..Len(cookies) : cookies[i].name = name].value

\* cookies[name] = value: an existing key keeps its place, a new key is appended
SetCookie(cookies, name, value) ==
    IF HasCookie(cookies, name)
    THEN [i \in 1..Len(cookies) |->
            IF cookies[i].name = name THEN [name |-> name, value |-> value]
            ELSE cookies[i]]
    ELSE Append(cookies, [name |-> name, value |-> value])

\* GeminiProvider.getCookieHeader
RECURSIVE EntryStrings(_)
EntryStrings(cookies) ==
    IF cookies = <<>> THEN <<>>
    ELSE <<Head(cookies).name \o <<Eq>> \o Head(cookies).value>>
         \o EntryStrings(Tail(cookies))

getCookieHeader(cfg) ==
    IF ~cfg.hasGemini THEN <<>>
    ELSE Join(EntryStrings(cfg.cookies), "; ")

\* One turn of the for-loop of GeminiProvider.updateCookies
CookieNameValue(cookieStr) == Head(Split(cookieStr, Semi))
CookieName(cookieStr) == Head(Split(CookieNameValue(cookieStr), Eq))
\* variant: only the part up to the next "=" is taken as the value
CookieValFirstPart(cookieStr) ==
    IF Len(Split(CookieNameValue(cookieStr), Eq)) >= 2
    THEN Split(CookieNameValue(cookieStr), Eq)[2]
    ELSE <<>>

CookieVal(cookieStr) == Join(Tail(Split(CookieNameValue(cookieStr), Eq)), Eq)

CookieAccepted(cookieStr) ==
    /\ CookieNameValue(cookieStr) # <<>>
    /\ CookieName(cookieStr) # <<>>
    /\ CookieVal(cookieStr) # <<>>

\* variant: every accepted entry is written, whether its value is new or not
CookieDiffersAlways(cookies, cookieStr) == TRUE

CookieDiffers(cookies, cookieStr) ==
    \/ ~HasCookie(cookies, CookieName(cookieStr))
    \/ CookieValue(cookies, CookieName(cookieStr)) # CookieVal(cookieStr)

\* The loop of GeminiProvider.updateCookies over headers.getSetCookie():
\* the cookie map after it and the flag `changed`
RECURSIVE updateCookies(_, _)
updateCookies(cookies, setCookies) ==
    IF setCookies = <<>> THEN [cookies |-> cookies, changed |-> FALSE]
    ELSE LET cookieStr == Head(setCookies)
             hit == CookieAccepted(cookieStr) /\ CookieDiffers(cookies, cookieStr)
             next == IF hit
                     THEN SetCookie(cookies, CookieName(cookieStr), CookieVal(cookieStr))
                     ELSE cookies
             rest == updateCookies(next, Tail(setCookies))
         IN  [cookies |-> rest.cookies, changed |-> hit \/ rest.changed]

\* ------------------------------------------------- bootstrap page scanning
IsQuoteTok(t) == t \in {Quote, KeySN, KeyBL}

\* length of the run of quote-free tokens of text that starts at index i
RECURSIVE RunLen(_, _)
RunLen(text, i) ==
    IF i > Len(text) \/ IsQuoteTok(text[i]) THEN 0
    ELSE 1 + RunLen(text, i + 1)

\* variant: the pattern /<key>([^"]*)"/, which accepts an empty value
KeyMatchAtStar(text, key, i) ==
    /\ text[i] = key
    /\ i + RunLen(text, i + 1) < Len(text)

\* text.match(/<key>([^"]+)"/): key, a non-empty quote-free run, a quote
KeyMatchAt(text, key, i) ==
    /\ text[i] = key
    /\ RunLen(text, i + 1) >= 1
    /\ i + RunLen(text, i + 1) < Len(text)

KeyMatches(text, key) == \E i \in 1..Len(text) : KeyMatchAt(text, key, i)

KeyMatch1(text, key) ==
    LET i == CHOOSE j \in 1..Len(text) :
                /\ KeyMatchAt(text, key, j)
                /\ \A k \in 1..(j - 1) : ~KeyMatchAt(text, key, k)
    IN  SubSeq(text, i + 1, i + RunLen(text, i + 1))

\* text.match(/(boq_assistant-bard-web-server_[^"]+)/): no closing quote needed
LooseMatchAt(text, i) == text[i] = BLPrefix /\ RunLen(text, i + 1) >= 1

LooseMatches(text) == \E i \in 1..Len(text) : LooseMatchAt(text, i)

\* variant: the last loose match is taken
LooseMatchLast(text) ==
    LET i == CHOOSE j \in 1..Len(text) :
                /\ LooseMatchAt(text, j)
                /\ \A k \in (j + 1)..Len(text) : ~LooseMatchAt(text, k)
    IN  SubSeq(text, i, i + RunLen(text, i + 1))

LooseMatch1(text) ==
    LET i == CHOOSE j \in 1..Len(text) :
                /\ LooseMatchAt(text, j)
                /\ \A k \in 1..(j - 1) : ~LooseMatchAt(text, k)
    IN  SubSeq(text, i, i + RunLen(text, i + 1))

\* variant: no default when the page names no version
SelectBLNoDefault(text) ==
    IF KeyMatches(text, KeyBL) THEN KeyMatch1(text, KeyBL)
    ELSE IF LooseMatches(text) THEN LooseMatch1(text)
    ELSE <<>>

\* the value getSNlM0e stores in this.bl
SelectBL(text) ==
    IF KeyMatches(text, KeyBL) THEN KeyMatch1(text, KeyBL)
    ELSE IF LooseMatches(text) THEN LooseMatch1(text)
    ELSE DefaultBL

\* ----------------------------------------------------------- HTTP status
\* Response.ok
ResponseOk(status) == status >= 200 /\ status <= 299

\* ------------------------------------------------------------- messages
MsgCookiesMissing == <<"Gemini cookies are missing">>
MsgCookiesMissingSetup ==
    <<"Gemini cookies are missing. Please run ", "'ai setup'", " to configure Gemini.">>
MsgPageStatus(status) == <<"Failed to fetch Gemini page: ", ToString(status), " ">>
MsgNoNonce == <<"Could not find SNlM0e nonce. ", "Cookies might be invalid.">>
\* variant: the message names the status code only
MsgApiStatusNoText(status, statusText) == <<"Gemini API error: ", ToString(status), " ">>

MsgApiStatus(status, statusText) ==
    <<"Gemini API error: ", ToString(status), " ", statusText, " ">>
MsgFetchFailed == <<"fetch failed">>

\* new Error(msg) / the TypeError fetch rejects with
ErrorOf(msg) == [name |-> "Error", message |-> msg]
TypeErrorOf(msg) == [name |-> "TypeError", message |-> msg]

\* `${error}`: Error.prototype.toString
ErrorToString(e) == <<e.name, ": ">> \o e.message

\* the catch block of callGeminiAPI
WrapError(e) == ErrorOf(<<"Failed to call Gemini API: ">> \o ErrorToString(e) \o <<" ">>)

\* ------------------------------------------------------------ JSON values
\* Characters that JSON text, url-encoding or the response framing treat
\* specially are tokens of their own; every other token is a run of
\* characters that holds none of them.
LB == "["
RB == "]"
LBrace == "{"
RBrace == "}"
Comma == ","
Colon == ":"
BS == "\\"
NL == "\n"
Sp == " "
Amp == "&"
Pct == "%"
\* a run of characters outside ASCII
NonAscii == "<U+4F60 U+597D>"
\* tokens that stand for a run of decimal digits
DigitRuns == {"0", "4", "25", "107", "143", "317"}

\* a JavaScript value: undefined, null, a boolean, a number, a string (its
\* tokens in s), an array (its elements in a) or an object (keys and values
\* alternating in a)
JUndef == [t |-> "undefined", s |-> <<>>, a |-> <<>>]
JNull == [t |-> "null", s |-> <<>>, a |-> <<>>]
JBool(tok) == [t |-> "boolean", s |-> <<tok>>, a |-> <<>>]
JNum(tok) == [t |-> "number", s |-> <<tok>>, a |-> <<>>]
JStr(s) == [t |-> "string", s |-> s, a |-> <<>>]
JArr(a) == [t |-> "array", s |-> <<>>, a |-> a]
JObj(a) == [t |-> "object", s |-> <<>>, a |-> a]

\* JSON.stringify of a string: the characters between the quotes
RECURSIVE JSONescape(_)
JSONescape(s) ==
    IF s = <<>> THEN <<>>
    ELSE (IF Head(s) \in {Quote, BS} THEN <<BS, Head(s)>>
          ELSE IF Head(s) = NL THEN <<BS, "n">>
          ELSE <<Head(s)>>) \o JSONescape(Tail(s))

\* JSON.stringify(value) for a value without undefined in it
RECURSIVE JSONstringify(_)
JSONstringify(v) ==
    IF v.t = "null" THEN <<"null">>
    ELSE IF v.t \in {"boolean", "number"} THEN v.s
    ELSE IF v.t = "string" THEN <<Quote>> \o JSONescape(v.s) \o <<Quote>>
    ELSE IF v.t = "array"
    THEN <<LB>> \o Join([i \in 1..Len(v.a) |-> JSONstringify(v.a[i])], Comma) \o <<RB>>
    ELSE <<LBrace>>
         \o Join([i \in 1..(Len(v.a) \div 2) |->
                    JSONstringify(v.a[2 * i - 1]) \o <<Colon>> \o JSONstringify(v.a[2 * i])],
                 Comma)
         \o <<RBrace>>

\* JSON.parse: a value, the index after it, or ok = FALSE (SyntaxError)
ParseFail == [ok |-> FALSE, v |-> JNull, next |-> 0]

RECURSIVE SkipWs(_, _)
SkipWs(toks, i) ==
    IF i <= Len(toks) /\ toks[i] \in {Sp, NL} THEN SkipWs(toks, i + 1) ELSE i

\* the number of backslashes that directly precede index j, from lo on
BSRunBefore(toks, j, lo) ==
    CHOOSE k \in 0..(j - lo) :
        /\ \A m \in 1..k : toks[j - m] = BS
        /\ k = j - lo \/ toks[j - k - 1] # BS

\* inside the string that starts at lo: the backslash at k opens an escape /
\* the character at k is the one an escape names
Escaping(toks, k, lo) == toks[k] = BS /\ BSRunBefore(toks, k, lo) % 2 = 0
Escaped(toks, k, lo) == k > lo /\ Escaping(toks, k - 1, lo)

IsClosingQuote(toks, j, lo) == toks[j] = Quote /\ ~Escaped(toks, j, lo)

\* the string whose opening quote precedes index i: it runs to the first
\* quote no backslash escapes; a raw line break or an escape other than
\* \" \\ \n in it is a SyntaxError
ParseString(toks, i) ==
    IF ~\E j \in i..Len(toks) : IsClosingQuote(toks, j, i) THEN ParseFail
    ELSE LET j == CHOOSE q \in i..Len(toks) :
                     /\ IsClosingQuote(toks, q, i)
                     /\ \A m \in i..(q - 1) : ~IsClosingQuote(toks, m, i)
             chars == [k \in 1..(j - i) |->
                         [tok |-> IF Escaped(toks, i + k - 1, i) /\ toks[i + k - 1] = "n"
                                  THEN NL ELSE toks[i + k - 1],
                          keep |-> ~Escaping(toks, i + k - 1, i)]]
             Kept(ch) == ch.keep
             kept == SelectSeq(chars, Kept)
         IN  IF \E k \in i..(j - 1) :
                   \/ toks[k] = NL
                   \/ Escaping(toks, k, i) /\ toks[k + 1] \notin {Quote, BS, "n"}
             THEN ParseFail
             ELSE [ok |-> TRUE, v |-> JStr([k \in 1..Len(kept) |-> kept[k].tok]),
                   next |-> j + 1]

RECURSIVE ParseValue(_, _)
RECURSIVE ParseElems(_, _, _)
RECURSIVE ParseMembers(_, _, _)

ParseValue(toks, i0) ==
    LET i == SkipWs(toks, i0)
    IN  IF i > Len(toks) THEN ParseFail
        ELSE IF toks[i] = "null" THEN [ok |-> TRUE, v |-> JNull, next |-> i + 1]
        ELSE IF toks[i] \in {"true", "false"}
        THEN [ok |-> TRUE, v |-> JBool(toks[i]), next |-> i + 1]
        ELSE IF toks[i] \in DigitRuns
        THEN [ok |-> TRUE, v |-> JNum(toks[i]), next |-> i + 1]
        ELSE IF toks[i] = Quote THEN ParseString(toks, i + 1)
        ELSE IF toks[i] = LB
        THEN LET j == SkipWs(toks, i + 1)
             IN  IF j <= Len(toks) /\ toks[j] = RB
                 THEN [ok |-> TRUE, v |-> JArr(<<>>), next |-> j + 1]
                 ELSE ParseElems(toks, i + 1, <<>>)
        ELSE IF toks[i] = LBrace
        THEN LET j == SkipWs(toks, i + 1)
             IN  IF j <= Len(toks) /\ toks[j] = RBrace
                 THEN [ok |-> TRUE, v |-> JObj(<<>>), next |-> j + 1]
                 ELSE ParseMembers(toks, i + 1, <<>>)
        ELSE ParseFail

ParseElems(toks, i, acc) ==
    LET r == ParseValue(toks, i)
        j == SkipWs(toks, r.next)
    IN  IF ~r.ok \/ j > Len(toks) THEN ParseFail
        ELSE IF toks[j] = Comma THEN ParseElems(toks, j + 1, Append(acc, r.v))
        ELSE IF toks[j] = RB
        THEN [ok |-> TRUE, v |-> JArr(Append(acc, r.v)), next |-> j + 1]
        ELSE ParseFail

ParseMembers(toks, i, acc) ==
    LET k == ParseValue(toks, i)
        c == SkipWs(toks, k.next)
        r == ParseValue(toks, c + 1)
        j == SkipWs(toks, r.next)
    IN  IF ~k.ok \/ k.v.t # "string" \/ c > Len(toks) THEN ParseFail
        ELSE IF toks[c] # Colon \/ ~r.ok \/ j > Len(toks) THEN ParseFail
        ELSE IF toks[j] = Comma THEN ParseMembers(toks, j + 1, acc \o <<k.v, r.v>>)
        ELSE IF toks[j] = RBrace
        THEN [ok |-> TRUE, v |-> JObj(acc \o <<k.v, r.v>>), next |-> j + 1]
        ELSE ParseFail

JSONparse(toks) ==
    LET r == ParseValue(toks, 1)
    IN  IF r.ok /\ SkipWs(toks, r.next) > Len(toks)
        THEN [ok |-> TRUE, v |-> r.v]
        ELSE [ok |-> FALSE, v |-> JNull]

\* --------------------------------------------------------- url-encoding
\* encodeURIComponent, one token: every character but A-Z a-z 0-9 - _ . ! ~
\* * ' ( ) becomes the %XX of its UTF-8 bytes
EncodeTok(tok) ==
    CASE tok = Quote -> "%22"
      [] tok = LB -> "%5B"
      [] tok = RB -> "%5D"
      [] tok = LBrace -> "%7B"
      [] tok = RBrace -> "%7D"
      [] tok = Comma -> "%2C"
      [] tok = Colon -> "%3A"
      [] tok = Semi -> "%3B"
      [] tok = Eq -> "%3D"
      [] tok = BS -> "%5C"
      [] tok = NL -> "%0A"
      [] tok = Sp -> "%20"
      [] tok = Amp -> "%26"
      [] tok = Pct -> "%25"
      [] tok = NonAscii -> "%E4%BD%A0%E5%A5%BD"
      [] OTHER -> tok

\* variant: encodeURI, which leaves the separators of a URI as they are
encodeURI(s) ==
    [i \in 1..Len(s) |-> IF s[i] \in {Amp, Eq, Colon, Comma, Semi} THEN s[i]
                          ELSE EncodeTok(s[i])]

encodeURIComponent(s) == [i \in 1..Len(s) |-> EncodeTok(s[i])]

Reserved == {Quote, LB, RB, LBrace, RBrace, Comma, Colon, Semi, Eq, BS, NL, Sp, Amp,
             Pct, NonAscii}

\* decodeURIComponent, one token
DecodeTok(tok) ==
    IF \E r \in Reserved : EncodeTok(r) = tok
    THEN CHOOSE r \in Reserved : EncodeTok(r) = tok
    ELSE tok

\* decodeURIComponent: a "%" that starts no escape raises URIError (ok = FALSE)
decodeURIComponent(s) ==
    IF Contains(s, Pct) THEN [ok |-> FALSE, s |-> <<>>]
    ELSE [ok |-> TRUE, s |-> [i \in 1..Len(s) |-> DecodeTok(s[i])]]

\* ------------------------------------------------- encoding a chat turn
\* gemini_formatter: GeminiRequestOptions is [message, systemPrompt,
\* conversationId, responseId, choiceId]; message is a string (its tokens),
\* the optional fields are JavaScript values (JUndef when not supplied)

\* formatMessage: if (systemPrompt) ... (undefined and "" are falsy)
\* variant: the prompt first and the system prompt after it, as the provider
\* joins them
formatMessageInline(message, systemPrompt) ==
    IF systemPrompt.t = "string"
    THEN message \o <<NL, NL, "System", Colon, Sp>> \o systemPrompt.s
    ELSE message

formatMessage(message, systemPrompt) ==
    IF systemPrompt.t = "string" /\ systemPrompt.s # <<>>
    THEN <<"SYSTEM", Colon, NL>> \o systemPrompt.s \o <<NL, NL, "USER", Colon, NL>>
         \o message
    ELSE message

buildMessageArray(message, systemPrompt) ==
    JArr(<<JStr(formatMessage(message, systemPrompt))>>)

\* x ?? null
OrNull(x) == IF x.t \in {"undefined", "null"} THEN JNull ELSE x

\* x || y
OrElse(x, y) ==
    IF x.t \in {"undefined", "null"} \/ (x.t = "string" /\ x.s = <<>>) THEN y ELSE x

\* variant: the ten-element context of the earlier revision of the formatter
\* (src/src/providers/gemini_formatter.ts lines 55-63)
buildContextArrayLegacy(options) ==
    JArr(<<OrElse(options.conversationId, JStr(<<>>)), OrElse(options.responseId, JNull),
           OrElse(options.choiceId, JNull), JNull, JNull, JNull, JNull, JNull, JNull,
           JStr(<<>>)>>)

buildContextArray(options) ==
    JArr(<<OrNull(options.conversationId), OrNull(options.responseId),
           OrNull(options.choiceId)>>)

buildInnerPayload(options) ==
    JSONstringify(JArr(<<buildMessageArray(options.message, options.systemPrompt),
                         JNull, buildContextArray(options)>>))

buildFReq(options) == JSONstringify(JArr(<<JNull, JStr(buildInnerPayload(options))>>))

formatGeminiRequestBody(options, nonceValue) ==
    <<"f.req", Eq>> \o encodeURIComponent(buildFReq(options)) \o <<Amp, "at", Eq>>
    \o nonceValue

\* buildGeminiSearchParams(bl, language = "en"); random is the value
\* Math.floor(Math.random() * 1000000) takes
buildGeminiSearchParams(blv, language, random) ==
    << [name |-> "bl", value |-> blv],
       [name |-> "hl", value |-> IF language.t = "undefined" THEN <<"en">> ELSE language.s],
       [name |-> "_reqid", value |-> <<ToString(random)>>],
       [name |-> "rt", value |-> <<"c">>] >>

\* URLSearchParams.get(name): the first value of that name, or absent
HasParam(params, name) == \E i \in 1..Len(params) : params[i].name = name

GetParam(params, name) ==
    params[CHOOSE i \in 1..Len(params) :
              /\ params[i].name = name
              /\ \A k \in 1..(i - 1) : params[k].name # name].value

\* ------------------------------------------------- decoding the chat body
\* gemini_parser.ts parseGeminiResponse.  The response text is a sequence of
\* tokens: the XSSI guard, line breaks, length markers and the tokens of the
\* JSON lines.
XSSI == ")]}'"
WrbFr == JStr(<<"wrb.fr">>)

\* text.split("\n") without recursion: the k-th line break and the lines
LineBreaks(text) == {i \in 1..Len(text) : text[i] = NL}

LineBreak(text, k) ==
    IF k = 0 THEN 0
    ELSE IF k > Cardinality(LineBreaks(text)) THEN Len(text) + 1
    ELSE CHOOSE i \in LineBreaks(text) :
            Cardinality({m \in LineBreaks(text) : m <= i}) = k

Lines(text) ==
    [k \in 1..(Cardinality(LineBreaks(text)) + 1) |->
        SubSeq(text, LineBreak(text, k - 1) + 1, LineBreak(text, k) - 1)]

IsWs(tok) == tok \in {Sp, NL}

\* the text from its first token that is not white space on
DropLeadingWs(text) ==
    IF \A i \in 1..Len(text) : IsWs(text[i]) THEN <<>>
    ELSE SubSeq(text, CHOOSE i \in 1..Len(text) :
                         /\ ~IsWs(text[i])
                         /\ \A k \in 1..(i - 1) : IsWs(text[k]),
                Len(text))

\* step 1: the guard )]}' at the very start goes, with the white space that
\* separates it from the first frame
StripXSSI(text) ==
    IF text # <<>> /\ Head(text) = XSSI THEN DropLeadingWs(Tail(text)) ELSE text

\* step 2: lines that carry no frame
IsBlank(line) == \A i \in 1..Len(line) : line[i] = Sp
IsLengthMarker(line) == Len(line) = 1 /\ line[1] \in DigitRuns

Skip == [kind |-> "skip", text |-> <<>>]

\* variant: only an outer array holding the wrb.fr frame alone is accepted
IsWrbFrameAlone(v) ==
    /\ v.t = "array" /\ Len(v.a) = 1
    /\ v.a[1].t = "array" /\ Len(v.a[1].a) >= 1
    /\ v.a[1].a[1] = WrbFr

\* step 4: parsed[0][0] === "wrb.fr"
IsWrbFrame(v) ==
    /\ v.t = "array" /\ Len(v.a) >= 1
    /\ v.a[1].t = "array" /\ Len(v.a[1].a) >= 1
    /\ v.a[1].a[1] = WrbFr

\* step 5: payload[4], the candidates; absent or not a list: none
CandidatesOf(payload) ==
    IF payload.t = "array" /\ Len(payload.a) >= 5 /\ payload.a[5].t = "array"
    THEN payload.a[5].a
    ELSE <<>>

\* step 5: candidates[0][1][0] is a string
HasFirstText(cands) ==
    /\ cands # <<>>
    /\ cands[1].t = "array" /\ Len(cands[1].a) >= 2
    /\ cands[1].a[2].t = "array" /\ Len(cands[1].a[2].a) >= 1
    /\ cands[1].a[2].a[1].t = "string"

\* variant: the text found is trimmed before it is returned
CandidateOutcomeTrimmed(payload) ==
    IF HasFirstText(CandidatesOf(payload))
    THEN LET t == DropLeadingWs(CandidatesOf(payload)[1].a[2].a[1].s)
             last == IF t = <<>> THEN 0
                     ELSE CHOOSE i \in 1..Len(t) :
                             /\ ~IsWs(t[i])
                             /\ \A k \in (i + 1)..Len(t) : IsWs(t[k])
         IN  [kind |-> "text", text |-> SubSeq(t, 1, last)]
    ELSE Skip

CandidateOutcome(payload) ==
    IF HasFirstText(CandidatesOf(payload))
    THEN [kind |-> "text", text |-> CandidatesOf(payload)[1].a[2].a[1].s]
    ELSE Skip

\* variant: the payload string is parsed outside any try block and the
\* candidates are indexed without a check
FrameOutcomeUnguarded(frame) ==
    LET payload == JSONparse(frame.a[3].s)
    IN  IF Len(frame.a) < 3 \/ frame.a[3].t # "string" \/ ~payload.ok
        THEN [kind |-> "raise", text |-> <<>>]
        ELSE IF ~HasFirstText(CandidatesOf(payload.v))
        THEN [kind |-> "raise", text |-> <<>>]
        ELSE CandidateOutcome(payload.v)

\* step 4: frame[2] is a JSON text of its own; one that does not parse is
\* dropped like any other parse failure
FrameOutcome(frame) ==
    LET payload == JSONparse(frame.a[3].s)
    IN  IF Len(frame.a) < 3 \/ frame.a[3].t # "string" \/ ~payload.ok THEN Skip
        ELSE CandidateOutcome(payload.v)

\* steps 2-5 for one line: nothing found here ("skip") or the text
LineOutcome(line) ==
    LET parsed == JSONparse(line)
    IN  IF IsBlank(line) \/ IsLengthMarker(line) \/ ~parsed.ok THEN Skip
        ELSE IF ~IsWrbFrame(parsed.v) THEN Skip
        ELSE FrameOutcome(parsed.v.a[1])

\* variant: on fallback the text is returned with the guard still on it
FallbackRaw(text) == text

\* step 6: the fallback
Fallback(text) == StripXSSI(text)

\* parseGeminiResponse(text): kind "ok" and the string returned, or "raise"
parseGeminiResponse(text) ==
    LET lines == Lines(StripXSSI(text))
        outcomes == [k \in 1..Len(lines) |-> LineOutcome(lines[k])]
        found == {k \in 1..Len(lines) : outcomes[k].kind # "skip"}
    IN  IF found # {}
        THEN LET first == outcomes[CHOOSE j \in found : \A m \in found : j <= m]
             IN  [kind |-> IF first.kind = "text" THEN "ok" ELSE "raise",
                  text |-> first.text]
        ELSE [kind |-> "ok", text |-> Fallback(text)]

\* ---------------------------------------------------- response texts
\* JSON.stringify(JSON.stringify(payload)) inside a wrb.fr frame
WrbFrame(rpc, payloadText) == JArr(<<WrbFr, rpc, JStr(payloadText)>>)

\* [null, [c, r], null, null, candidates]
ChatPayload(ids, cands) == JArr(<<JNull, ids, JNull, JNull, JArr(cands)>>)
Candidate(rc, t) == JArr(<<JStr(rc), JArr(<<JStr(t)>>)>>)

\* createMockGeminiResponse: )]}' \n length \n [["wrb.fr", null, payload]]
createMockGeminiResponse(responseText, convId, respId) ==
    <<XSSI, NL, "107", NL>>
    \o JSONstringify(JArr(<<WrbFrame(JNull,
          JSONstringify(ChatPayload(JArr(<<JStr(convId), JStr(respId)>>),
                                    <<Candidate(<<"rc_choice">>, responseText)>>)))>>))

\* ------------------------------------------------------------ input sets
V0 == <<"v0">>

InitConfigs ==
    { [hasGemini |-> FALSE, cookies |-> <<>>],
      [hasGemini |-> TRUE, cookies |-> <<>>],
      [hasGemini |-> TRUE, cookies |-> <<[name |-> PSID, value |-> V0]>>],
      [hasGemini |-> TRUE, cookies |-> <<[name |-> PSID, value |-> V0],
                                         [name |-> PSIDTS, value |-> V0]>>] }

SetCookieStrs ==
    { PSID \o <<Eq, "r1", Semi, " Path", Eq, "/">>,
      PSIDTS \o <<Eq, "r1">>,
      PSIDTS \o <<Eq, "a", Eq, "b", Semi, " Secure">>,
      PSID \o <<Eq, Semi, " Max-Age", Eq, "0">>,
      NID \o <<Eq, "r1">> }

SetCookieLists == UNION { [1..n -> SetCookieStrs] : n \in 0..MaxSetCookies }

\* the Set-Cookie headers the service answers a request with
ResponseSetCookies ==
    { <<>>,
      << PSIDTS \o <<Eq, "r1">> >>,
      << PSID \o <<Eq, "r1", Semi, " Path", Eq, "/">>,
         PSIDTS \o <<Eq, "a", Eq, "b", Semi, " Secure">> >>,
      << PSID \o <<Eq, Semi, " Max-Age", Eq, "0">> >> }

Statuses ==
    { [status |-> 200, statusText |-> "OK"],
      [status |-> 401, statusText |-> "Unauthorized"],
      [status |-> 503, statusText |-> ""] }

PageNoNonce == <<"<html>", Quote, "WIZ", Quote>>
PageEmptyNonce == <<KeySN, Quote>>
PageNonce1 == <<KeySN, "n1", Quote>>
PageNonce2 == <<KeySN, "n2", Quote, KeyBL, "bl1", Quote>>
PageLoose == <<Quote, BLPrefix, "2025", Quote, KeySN, "n1", Quote>>
PageBoth == <<Quote, BLPrefix, "2024", Quote, KeySN, "n1", Quote, KeyBL, "bl1", Quote>>
PageTwoLoose ==
    <<BLPrefix, Quote, BLPrefix, "2025", Quote, BLPrefix, "2026", KeySN, "n2", Quote>>

Pages ==
    {PageNoNonce, PageEmptyNonce, PageNonce1, PageNonce2, PageLoose, PageBoth,
     PageTwoLoose}

ChatBodies ==
    { createMockGeminiResponse(<<"Hello">>, <<"c_123">>, <<"r_456">>),
      <<XSSI, NL, "not", Sp, "valid", Sp, "json">>,
      <<>> }

\* this.parseGeminiResponse(text) for each of these bodies
Decoded == [text \in ChatBodies |-> parseGeminiResponse(text)]

Prompts == { <<"list", Sp, "files", Sp, Amp, Sp, Quote, "dirs", Quote>> }
SystemPrompts == { <<>>, <<"be", Sp, "brief">> }
DefaultSystemPrompt == <<"You", Sp, "are", Sp, "a", Sp, "CLI", Sp, "command", Sp, "generator.">>

ReqIds == {0, 99999}

NoReq == [method |-> "none", url |-> "", cookie |-> <<>>, bl |-> <<>>, reqid |-> 0,
          at |-> <<>>, message |-> <<>>, query |-> <<>>, body |-> <<>>]
NoResp == [status |-> 0, statusText |-> "", text |-> <<>>]
NoToml == [hasGemini |-> FALSE, cookies |-> <<>>]
NoProbe == [op |-> "none", before |-> NoToml, setCookies |-> <<>>, changed |-> FALSE,
            changedAgain |-> FALSE]
NoResult == [kind |-> "none", text |-> <<>>, error |-> [name |-> "", message |-> <<>>]]

\* state.lastOutput of an agent run, and a run that has not started
MsgMissingTools(missing) ==
    [text |-> <<"Error: The following tools are not available: ",
                ". Please use alternative commands.">>, tools |-> missing]
MsgSkipped == [text |-> <<"User skipped this command. Try a different approach.">>,
               tools |-> {}]
MsgNoOutput == [text |-> <<"Command completed with no output.">>, tools |-> {}]
MsgFailed(exitCode) == <<"\nCommand failed with exit code ", ToString(exitCode)>>
Output(text) == [text |-> text, tools |-> {}]

NoRun == [op |-> "none", pc |-> "ended", interactive |-> FALSE, iteration |-> 0,
          requests |-> 0, lastOutput |-> Output(<<>>), commands |-> <<>>, i |-> 0,
          combinedOutput |-> <<>>, results |-> <<>>, validation |-> "none",
          normalized |-> "none", reason |-> ""]

\* ------------------------------------------------------------------ state
VARIABLES
    config,       \* this.config: [hasGemini, cookies] (config.gemini?.cookies)
    saved,        \* what the global .ai-config.toml holds of it
    snlm0e,       \* this.snlm0e (<<>>: undefined)
    bl,           \* this.bl (<<>>: undefined)
    pc,           \* per caller: where its call stands
    args,         \* per caller: [prompt, systemPrompt] of callGeminiAPI
    nonce,        \* per caller: the local const snlm0e of callGeminiAPI
    req,          \* per caller: the last request its call issued
    resp,         \* per caller: head of the last response its call received
    page,         \* per caller: the bootstrap page text its call read
    tomlContent,  \* per caller: the content saveConfig is writing
    result,       \* per caller: what its last call returned or threw
    trace,        \* per caller: the steps of its current call, in order
    gets,         \* per caller: bootstrap GETs issued by its current call
    posts,        \* per caller: chat POSTs issued by its current call
    cachedAtStart,\* per caller: was the nonce cached when its call started
    totalGets,    \* bootstrap GETs issued over the client's lifetime
    turns,        \* calls started over the client's lifetime
    probe,        \* input and outcome of an operation applied on its own
    run           \* the command-line run: agent loop or command batch

vars == <<config, saved, snlm0e, bl, pc, args, nonce, req, resp, page, tomlContent,
          result, trace, gets, posts, cachedAtStart, totalGets, turns, probe, run>>

Init ==
    /\ config \in InitConfigs
    /\ saved = config
    /\ snlm0e = <<>>
    /\ bl = <<>>
    /\ pc = [c \in Callers |-> "idle"]
    /\ args = [c \in Callers |-> [prompt |-> <<>>, systemPrompt |-> <<>>]]
    /\ nonce = [c \in Callers |-> <<>>]
    /\ req = [c \in Callers |-> NoReq]
    /\ resp = [c \in Callers |-> NoResp]
    /\ page = [c \in Callers |-> <<>>]
    /\ tomlContent = [c \in Callers |-> NoToml]
    /\ result = [c \in Callers |-> NoResult]
    /\ trace = [c \in Callers |-> <<>>]
    /\ gets = [c \in Callers |-> 0]
    /\ posts = [c \in Callers |-> 0]
    /\ cachedAtStart = [c \in Callers |-> FALSE]
    /\ totalGets = 0
    /\ turns = 0
    /\ probe = NoProbe
    /\ run = NoRun

\* ---------------------------------------------------------------- helpers
Log(c, ev) == trace' = [trace EXCEPT ![c] = Append(@, ev)]

\* the call of caller c ends by throwing e
Throw(c, e) ==
    /\ result' = [result EXCEPT ![c] = [kind |-> "error", text |-> <<>>, error |-> e]]
    /\ pc' = [pc EXCEPT ![c] = "done"]

\* variant: callGeminiAPI does not check the credentials itself
callGeminiAPIGuardOff(cfg) == FALSE

\* callGeminiAPI lines 94-96: if (!this.config.gemini?.cookies) throw ...
callGeminiAPIGuard(cfg) == ~cfg.hasGemini

\* getSNlM0e lines 55-57: if (!this.config.gemini?.cookies) throw ...
getSNlM0eGuard(cfg) == ~cfg.hasGemini

\* variant: the cached nonce is never used
NonceCachedNever(n) == FALSE

\* getSNlM0e line 53: if (this.snlm0e) return this.snlm0e
NonceCached(n) == n # <<>>

\* the request getSNlM0e sends
BootstrapRequest(cfg) ==
    [method |-> "GET", url |-> BootstrapURL, cookie |-> getCookieHeader(cfg),
     bl |-> <<>>, reqid |-> 0, at |-> <<>>, message |-> <<>>, query |-> <<>>,
     body |-> <<>>]

\* callGeminiAPI line 118: the text put at index 0 of the message array
ChatMessage(a) == a.prompt \o <<NL, NL, "System", Colon, Sp>> \o a.systemPrompt

\* callGeminiAPI line 118: the template literal that is the inner payload
ChatInnerPayload(message) ==
    <<LB, LB>> \o JSONstringify(JStr(message))
    \o <<RB, Comma, "null", Comma, LB, Quote, Quote, Comma, "null", Comma, "null", Comma,
         "null", Comma, "null", Comma, LB, RB, RB, RB>>

\* callGeminiAPI line 118: the body of the POST
ChatBody(message, at) ==
    <<"f.req", Eq>>
    \o encodeURIComponent(JSONstringify(JArr(<<JNull, JStr(ChatInnerPayload(message))>>)))
    \o <<Amp, "at", Eq>> \o at

\* callGeminiAPI lines 101-104: the URLSearchParams of the POST
ChatParams(blv, reqid) ==
    << [name |-> "bl", value |-> IF blv # <<>> THEN blv ELSE DefaultBL],
       [name |-> "_reqid", value |-> <<ToString(reqid)>>],
       [name |-> "rt", value |-> <<"c">>] >>

\* the request callGeminiAPI sends
ChatRequest(cfg, blv, reqid, at, a) ==
    [method |-> "POST", url |-> StreamGenerateURL, cookie |-> getCookieHeader(cfg),
     bl |-> IF blv # <<>> THEN blv ELSE DefaultBL, reqid |-> reqid, at |-> at,
     message |-> ChatMessage(a), query |-> ChatParams(blv, reqid),
     body |-> ChatBody(ChatMessage(a), at)]

\* variant: the loop updates the map but never sets `changed`
updateCookiesOfNoFlag(cfg, setCookies) ==
    IF ~cfg.hasGemini \/ setCookies = <<>>
    THEN [config |-> cfg, changed |-> FALSE]
    ELSE [config |-> [cfg EXCEPT !.cookies = updateCookies(cfg.cookies, setCookies).cookies],
          changed |-> FALSE]

\* GeminiProvider.updateCookies up to `if (changed)`: the early returns and
\* the loop; the configuration after it and the flag `changed`
updateCookiesOf(cfg, setCookies) ==
    IF ~cfg.hasGemini \/ setCookies = <<>>
    THEN [config |-> cfg, changed |-> FALSE]
    ELSE LET upd == updateCookies(cfg.cookies, setCookies)
         IN  [config |-> [cfg EXCEPT !.cookies = upd.cookies], changed |-> upd.changed]

\* await this.updateCookies(response.headers), up to its first await: the
\* loop over the Set-Cookie entries and, if one changed the map, the start of
\* saveConfig, which serialises this.config before it awaits Bun.write
ApplyResponse(c, head, sc, savingPc, updatedPc) ==
    LET upd == updateCookiesOf(config, sc)
    IN  /\ resp' = [resp EXCEPT ![c] = [status |-> head.status,
                                         statusText |-> head.statusText, text |-> <<>>]]
        /\ config' = upd.config
        /\ IF upd.changed
           THEN /\ tomlContent' = [tomlContent EXCEPT ![c] = config']
                /\ pc' = [pc EXCEPT ![c] = savingPc]
           ELSE /\ tomlContent' = tomlContent
                /\ pc' = [pc EXCEPT ![c] = updatedPc]

\* ---------------------------------------------------------------- actions
\* generate(prompt, systemPrompt?) -> callGeminiAPI, up to its first await
generate(c, In) ==
    /\ pc[c] = "idle"
    /\ turns < MaxTurns
    /\ turns' = turns + 1
    /\ \E p \in In.prompts, sp \in In.systemPrompts :
          args' = [args EXCEPT ![c] =
                     [prompt |-> p,
                      systemPrompt |-> IF sp # <<>> THEN sp ELSE DefaultSystemPrompt]]
    /\ cachedAtStart' = [cachedAtStart EXCEPT ![c] = NonceCached(snlm0e)]
    /\ UNCHANGED <<resp, posts>>
    /\ IF callGeminiAPIGuard(config)
       THEN /\ Throw(c, ErrorOf(MsgCookiesMissingSetup))
            /\ trace' = [trace EXCEPT ![c] = <<"start", "raise">>]
            /\ req' = [req EXCEPT ![c] = NoReq]
            /\ gets' = [gets EXCEPT ![c] = 0]
            /\ UNCHANGED <<nonce, totalGets>>
       ELSE IF NonceCached(snlm0e)
       THEN /\ nonce' = [nonce EXCEPT ![c] = snlm0e]
            /\ pc' = [pc EXCEPT ![c] = "gotNonce"]
            /\ result' = [result EXCEPT ![c] = NoResult]
            /\ trace' = [trace EXCEPT ![c] = <<"start", "nonce">>]
            /\ req' = [req EXCEPT ![c] = NoReq]
            /\ gets' = [gets EXCEPT ![c] = 0]
            /\ UNCHANGED totalGets
       ELSE IF getSNlM0eGuard(config)
       THEN /\ Throw(c, ErrorOf(MsgCookiesMissing))
            /\ trace' = [trace EXCEPT ![c] = <<"start", "raise">>]
            /\ req' = [req EXCEPT ![c] = NoReq]
            /\ gets' = [gets EXCEPT ![c] = 0]
            /\ UNCHANGED <<nonce, totalGets>>
       ELSE /\ req' = [req EXCEPT ![c] = BootstrapRequest(config)]
            /\ pc' = [pc EXCEPT ![c] = "awaitGet"]
            /\ result' = [result EXCEPT ![c] = NoResult]
            /\ trace' = [trace EXCEPT ![c] = <<"start", "GET">>]
            /\ gets' = [gets EXCEPT ![c] = 1]
            /\ totalGets' = totalGets + 1
            /\ nonce' = [nonce EXCEPT ![c] = <<>>]
    /\ UNCHANGED <<page, config, saved, snlm0e, bl, tomlContent>>

\* getSNlM0e: fetch(".../app") rejects; the error leaves callGeminiAPI as it is
GetFailed(c) ==
    /\ pc[c] = "awaitGet"
    /\ Throw(c, TypeErrorOf(MsgFetchFailed))
    /\ Log(c, "raise")
    /\ req' = [req EXCEPT ![c] = NoReq]
    /\ UNCHANGED <<page, config, saved, snlm0e, bl, args, nonce, resp, tomlContent,
                   gets, posts, cachedAtStart, totalGets, turns>>

\* getSNlM0e: fetch resolves; await this.updateCookies(response.headers)
GetResolved(c, In) ==
    /\ pc[c] = "awaitGet"
    /\ \E head \in In.heads, sc \in In.setCookies :
          ApplyResponse(c, head, sc, "getSaving", "getUpdated")
    /\ Log(c, "cookies")
    /\ req' = [req EXCEPT ![c] = NoReq]
    /\ UNCHANGED <<page, saved, snlm0e, bl, args, nonce, result, gets, posts,
                   cachedAtStart, totalGets, turns>>

\* saveConfig: Bun.write(targetPath, tomlContent) completes
SaveDone(c) ==
    /\ pc[c] \in {"getSaving", "postSaving"}
    /\ saved' = tomlContent[c]
    /\ pc' = [pc EXCEPT ![c] = IF pc[c] = "getSaving" THEN "getUpdated" ELSE "postUpdated"]
    /\ tomlContent' = [tomlContent EXCEPT ![c] = NoToml]
    /\ Log(c, "save")
    /\ UNCHANGED <<page, config, snlm0e, bl, args, nonce, req, resp, result,
                   gets, posts, cachedAtStart, totalGets, turns>>

\* getSNlM0e: if (!response.ok) throw ...; else await response.text()
GetStatus(c) ==
    /\ pc[c] = "getUpdated"
    /\ IF ~ResponseOk(resp[c].status)
       THEN /\ Throw(c, ErrorOf(MsgPageStatus(resp[c].status)))
            /\ trace' = [trace EXCEPT ![c] = @ \o <<"status", "raise">>]
       ELSE /\ pc' = [pc EXCEPT ![c] = "getBody"]
            /\ Log(c, "status")
            /\ UNCHANGED result
    /\ UNCHANGED <<page, config, saved, snlm0e, bl, args, nonce, req, resp, tomlContent,
                   gets, posts, cachedAtStart, totalGets, turns>>

\* getSNlM0e: response.text() rejects
GetBodyFailed(c) ==
    /\ pc[c] = "getBody"
    /\ Throw(c, TypeErrorOf(MsgFetchFailed))
    /\ Log(c, "raise")
    /\ UNCHANGED <<page, config, saved, snlm0e, bl, args, nonce, req, resp, tomlContent,
                   gets, posts, cachedAtStart, totalGets, turns>>

\* variant: a nonce another call cached meanwhile is kept and returned
GetBodyKeepCached(c, In) ==
    /\ pc[c] = "getBody"
    /\ \E text \in In.pages :
          /\ IF ~KeyMatches(text, KeySN)
             THEN /\ Throw(c, ErrorOf(MsgNoNonce))
                  /\ trace' = [trace EXCEPT ![c] = @ \o <<"scan", "raise">>]
                  /\ UNCHANGED <<snlm0e, bl, nonce>>
             ELSE /\ snlm0e' = IF snlm0e # <<>> THEN snlm0e ELSE KeyMatch1(text, KeySN)
                  /\ bl' = IF snlm0e # <<>> THEN bl ELSE SelectBL(text)
                  /\ nonce' = [nonce EXCEPT ![c] = snlm0e']
                  /\ pc' = [pc EXCEPT ![c] = "gotNonce"]
                  /\ trace' = [trace EXCEPT ![c] = @ \o <<"scan", "nonce">>]
                  /\ UNCHANGED result
          /\ page' = [page EXCEPT ![c] = text]
    /\ UNCHANGED <<config, saved, args, req, resp, tomlContent, gets, posts,
                   cachedAtStart, totalGets, turns>>

\* getSNlM0e: the page text arrives and is scanned for nonce and version
GetBody(c, In) ==
    /\ pc[c] = "getBody"
    /\ \E text \in In.pages :
          /\ IF ~KeyMatches(text, KeySN)
             THEN /\ Throw(c, ErrorOf(MsgNoNonce))
                  /\ trace' = [trace EXCEPT ![c] = @ \o <<"scan", "raise">>]
                  /\ UNCHANGED <<snlm0e, bl, nonce>>
             ELSE /\ snlm0e' = KeyMatch1(text, KeySN)
                  /\ bl' = SelectBL(text)
                  /\ nonce' = [nonce EXCEPT ![c] = snlm0e']
                  /\ pc' = [pc EXCEPT ![c] = "gotNonce"]
                  /\ trace' = [trace EXCEPT ![c] = @ \o <<"scan", "nonce">>]
                  /\ UNCHANGED result
          /\ page' = [page EXCEPT ![c] = text]
    /\ UNCHANGED <<config, saved, args, req, resp, tomlContent, gets, posts,
                   cachedAtStart, totalGets, turns>>

\* variant: the Cookie header carries the values the client was constructed
\* with, not those of the cookie map as it stands when the POST is built
IssuePostStaleCookies(c, In) ==
    /\ pc[c] = "gotNonce"
    /\ \E reqid \in In.reqIds :
          req' = [req EXCEPT ![c] =
                    [ChatRequest(config, bl, reqid, nonce[c], args[c]) EXCEPT
                       !.cookie = getCookieHeader(
                          [config EXCEPT !.cookies =
                             [i \in DOMAIN config.cookies |->
                                [config.cookies[i] EXCEPT !.value = V0]]])]]
    /\ posts' = [posts EXCEPT ![c] = @ + 1]
    /\ pc' = [pc EXCEPT ![c] = "awaitPost"]
    /\ resp' = [resp EXCEPT ![c] = NoResp]
    /\ Log(c, "POST")
    /\ UNCHANGED <<page, config, saved, snlm0e, bl, args, nonce, tomlContent, result,
                   gets, cachedAtStart, totalGets, turns>>

\* callGeminiAPI after `await this.getSNlM0e()`: cookie header, query, fetch
IssuePost(c, In) ==
    /\ pc[c] = "gotNonce"
    /\ \E reqid \in In.reqIds :
          req' = [req EXCEPT ![c] = ChatRequest(config, bl, reqid, nonce[c], args[c])]
    /\ posts' = [posts EXCEPT ![c] = @ + 1]
    /\ pc' = [pc EXCEPT ![c] = "awaitPost"]
    /\ resp' = [resp EXCEPT ![c] = NoResp]
    /\ Log(c, "POST")
    /\ UNCHANGED <<page, config, saved, snlm0e, bl, args, nonce, tomlContent, result,
                   gets, cachedAtStart, totalGets, turns>>

\* variant: a rejected fetch is tried again
PostFailedRetry(c) ==
    /\ pc[c] = "awaitPost"
    /\ pc' = [pc EXCEPT ![c] = "gotNonce"]
    /\ Log(c, "raise")
    /\ req' = [req EXCEPT ![c] = NoReq]
    /\ UNCHANGED <<page, config, saved, snlm0e, bl, args, nonce, resp, tomlContent,
                   result, gets, posts, cachedAtStart, totalGets, turns>>

\* callGeminiAPI: fetch rejects inside the try block
PostFailed(c) ==
    /\ pc[c] = "awaitPost"
    /\ Throw(c, WrapError(TypeErrorOf(MsgFetchFailed)))
    /\ Log(c, "raise")
    /\ req' = [req EXCEPT ![c] = NoReq]
    /\ UNCHANGED <<page, config, saved, snlm0e, bl, args, nonce, resp, tomlContent,
                   gets, posts, cachedAtStart, totalGets, turns>>

\* variant: the status is checked before the cookies are looked at
PostResolvedStatusFirst(c, In) ==
    /\ pc[c] = "awaitPost"
    /\ \E head \in In.heads, sc \in In.setCookies :
          IF ~ResponseOk(head.status)
          THEN /\ resp' = [resp EXCEPT ![c] = [status |-> head.status,
                                                statusText |-> head.statusText, text |-> <<>>]]
               /\ Throw(c, WrapError(ErrorOf(MsgApiStatus(head.status, head.statusText))))
               /\ trace' = [trace EXCEPT ![c] = @ \o <<"status", "raise">>]
               /\ UNCHANGED <<config, tomlContent>>
          ELSE /\ ApplyResponse(c, head, sc, "postSaving", "postUpdated")
               /\ Log(c, "cookies")
               /\ UNCHANGED result
    /\ req' = [req EXCEPT ![c] = NoReq]
    /\ UNCHANGED <<page, saved, snlm0e, bl, args, nonce, gets, posts,
                   cachedAtStart, totalGets, turns>>

\* callGeminiAPI: fetch resolves; await this.updateCookies(response.headers)
PostResolved(c, In) ==
    /\ pc[c] = "awaitPost"
    /\ \E head \in In.heads, sc \in In.setCookies :
          ApplyResponse(c, head, sc, "postSaving", "postUpdated")
    /\ Log(c, "cookies")
    /\ req' = [req EXCEPT ![c] = NoReq]
    /\ UNCHANGED <<page, saved, snlm0e, bl, args, nonce, result, gets, posts,
                   cachedAtStart, totalGets, turns>>

\* callGeminiAPI: if (!response.ok) throw ... (caught and wrapped); else text()
PostStatus(c) ==
    /\ pc[c] = "postUpdated"
    /\ IF ~ResponseOk(resp[c].status)
       THEN /\ Throw(c, WrapError(ErrorOf(MsgApiStatus(resp[c].status,
                                                       resp[c].statusText))))
            /\ trace' = [trace EXCEPT ![c] = @ \o <<"status", "raise">>]
       ELSE /\ pc' = [pc EXCEPT ![c] = "postBody"]
            /\ Log(c, "status")
            /\ UNCHANGED result
    /\ UNCHANGED <<page, config, saved, snlm0e, bl, args, nonce, req, resp, tomlContent,
                   gets, posts, cachedAtStart, totalGets, turns>>

\* callGeminiAPI: response.text() rejects inside the try block
PostBodyFailed(c) ==
    /\ pc[c] = "postBody"
    /\ Throw(c, WrapError(TypeErrorOf(MsgFetchFailed)))
    /\ Log(c, "raise")
    /\ UNCHANGED <<page, config, saved, snlm0e, bl, args, nonce, req, resp, tomlContent,
                   gets, posts, cachedAtStart, totalGets, turns>>

\* new Error thrown inside parseGeminiResponse
MsgParse == <<"Cannot read properties of undefined">>

\* callGeminiAPI: the body arrives; return this.parseGeminiResponse(text).
\* The value returned is a string; an error raised while parsing would be
\* caught and wrapped like any other error of the try block.
PostBody(c, In) ==
    /\ pc[c] = "postBody"
    /\ \E text \in In.bodies :
          /\ resp' = [resp EXCEPT ![c].text = text]
          /\ IF Decoded[text].kind = "raise"
             THEN /\ Throw(c, WrapError(TypeErrorOf(MsgParse)))
                  /\ trace' = [trace EXCEPT ![c] = @ \o <<"decode", "raise">>]
             ELSE /\ result' = [result EXCEPT ![c] =
                                  [kind |-> "ok", text |-> Decoded[text].text,
                                   error |-> NoResult.error]]
                  /\ pc' = [pc EXCEPT ![c] = "done"]
                  /\ trace' = [trace EXCEPT ![c] = @ \o <<"decode", "return">>]
    /\ UNCHANGED <<page, config, saved, snlm0e, bl, args, nonce, req, tomlContent,
                   gets, posts, cachedAtStart, totalGets, turns>>

\* callGeminiAPI line 130 and its signature Promise<string>: the value a call
\* that ended well hands its caller is the string parseGeminiResponse returned
ReturnValue(res) == JStr(res.text)

\* the caller takes the value or the error of its finished call
Return(c) ==
    /\ pc[c] = "done"
    /\ pc' = [pc EXCEPT ![c] = "idle"]
    /\ args' = [args EXCEPT ![c] = [prompt |-> <<>>, systemPrompt |-> <<>>]]
    /\ nonce' = [nonce EXCEPT ![c] = <<>>]
    /\ resp' = [resp EXCEPT ![c] = NoResp]
    /\ page' = [page EXCEPT ![c] = <<>>]
    /\ result' = [result EXCEPT ![c] = NoResult]
    /\ trace' = [trace EXCEPT ![c] = <<>>]
    /\ gets' = [gets EXCEPT ![c] = 0]
    /\ posts' = [posts EXCEPT ![c] = 0]
    /\ cachedAtStart' = [cachedAtStart EXCEPT ![c] = FALSE]
    /\ UNCHANGED <<config, saved, snlm0e, bl, req, tomlContent, totalGets, turns>>

\* one step of the call of caller c after it has started
Step(c, In) ==
    \/ GetFailed(c)
    \/ GetResolved(c, In)
    \/ SaveDone(c)
    \/ GetStatus(c)
    \/ GetBodyFailed(c)
    \/ GetBody(c, In)
    \/ IssuePost(c, In)
    \/ PostFailed(c)
    \/ PostResolved(c, In)
    \/ PostStatus(c)
    \/ PostBodyFailed(c)
    \/ PostBody(c, In)
    \/ Return(c)

\* what the caller passes and the service answers
Inputs ==
    [prompts |-> Prompts, systemPrompts |-> SystemPrompts, heads |-> Statuses,
     setCookies |-> ResponseSetCookies, pages |-> Pages, reqIds |-> ReqIds,
     bodies |-> ChatBodies]

\* the caller awaits each call before it makes the next one
Sequential(c) == \A d \in Callers \ {c} : pc[d] = "idle"

Next ==
    /\ \/ \E c \in Callers : Sequential(c) /\ generate(c, Inputs)
       \/ \E c \in Callers : Step(c, Inputs)
    /\ UNCHANGED <<probe, run>>

Spec == Init /\ [][Next]_vars

\* config.ts validateConfigRequired, active_provider "gemini": the section
\* and its cookies table must be there; the table's content is not looked at
validateConfigRequired(cfg) == cfg.hasGemini

\* updateCookies applied on its own: await this.updateCookies(headers) from
\* a configuration and a Set-Cookie list drawn from the input sets, saveConfig
\* included, and then once more for a second response with the same list
ProbeConfigs ==
    InitConfigs \cup
    { [hasGemini |-> TRUE, cookies |-> <<[name |-> PSIDTS, value |-> <<"a", Eq, "b">>],
                                         [name |-> PSID, value |-> <<"r1">>]>>] }

InitCookies ==
    /\ config \in ProbeConfigs
    /\ saved = config
    /\ snlm0e = <<>>
    /\ bl = <<>>
    /\ pc = [c \in Callers |-> "idle"]
    /\ args = [c \in Callers |-> [prompt |-> <<>>, systemPrompt |-> <<>>]]
    /\ nonce = [c \in Callers |-> <<>>]
    /\ req = [c \in Callers |-> NoReq]
    /\ resp = [c \in Callers |-> NoResp]
    /\ page = [c \in Callers |-> <<>>]
    /\ tomlContent = [c \in Callers |-> NoToml]
    /\ result = [c \in Callers |-> NoResult]
    /\ trace = [c \in Callers |-> <<>>]
    /\ gets = [c \in Callers |-> 0]
    /\ posts = [c \in Callers |-> 0]
    /\ cachedAtStart = [c \in Callers |-> FALSE]
    /\ totalGets = 0
    /\ turns = 0
    /\ \E sc \in SetCookieLists :
          probe = [op |-> "updateCookies", before |-> config, setCookies |-> sc,
                   changed |-> FALSE, changedAgain |-> FALSE]
    /\ run = NoRun

updateCookiesCall ==
    /\ probe.op \in {"updateCookies", "updateCookies.done"}
    /\ LET upd == updateCookiesOf(config, probe.setCookies)
       IN  /\ config' = upd.config
           /\ saved' = IF upd.changed THEN upd.config ELSE saved
           /\ probe' = IF probe.op = "updateCookies"
                       THEN [probe EXCEPT !.op = "updateCookies.done",
                                          !.changed = upd.changed]
                       ELSE [probe EXCEPT !.op = "updateCookies.twice",
                                          !.changedAgain = upd.changed]
    /\ UNCHANGED <<snlm0e, bl, pc, args, nonce, req, resp, page, tomlContent, result,
                   trace, gets, posts, cachedAtStart, totalGets, turns>>

NextCookies == updateCookiesCall /\ UNCHANGED run

SpecCookies == InitCookies /\ [][NextCookies]_vars

\* Two callers whose calls overlap at their await points, on a client that
\* holds both auth cookies
OverlapInputs ==
    [prompts |-> Prompts, systemPrompts |-> {<<>>},
     heads |-> {h \in Statuses : h.status \in {200, 401}},
     setCookies |-> {sc \in ResponseSetCookies : sc # <<>> => CookieAccepted(sc[1])},
     pages |-> {PageNoNonce, PageNonce1, PageNonce2},
     reqIds |-> {0},
     bodies |-> {b \in ChatBodies : b # <<>>}]

InitOverlap == Init /\ Len(config.cookies) = 2

NextOverlap ==
    /\ \/ \E c \in Callers : generate(c, OverlapInputs)
       \/ \E c \in Callers : Step(c, OverlapInputs)
    /\ UNCHANGED <<probe, run>>

SpecOverlap == InitOverlap /\ [][NextOverlap]_vars

\* ======================================================================
\* The Frame Codec applied on its own: one function of gemini_formatter or
\* gemini_parser is called with arguments drawn from the input sets
\* ======================================================================
Messages ==
    { <<"Hello">>,
      <<"Hello", Sp, Amp, Sp, "Goodbye">>,
      <<"Line", Sp, "1", NL, Quote, "Line", Sp, "2", Quote, BS, NonAscii>> }

OptionalPrompts ==
    { JUndef, JStr(<<>>), JStr(<<"Be", Sp, "helpful">>), JStr(<<"System", NL, "Prompt">>) }

OptionalIds(id) == { JUndef, JNull, JStr(<<>>), JStr(<<id>>) }

Nonces ==
    { <<"test-nonce-123">>,
      <<"APwZiao5vdDJgMNysDG7yjXFWAhc", Colon, "1766763052133">>,
      <<"n", Amp, "at", Eq, "1">> }

NoOptions == [message |-> <<>>, systemPrompt |-> JUndef, conversationId |-> JUndef,
              responseId |-> JUndef, choiceId |-> JUndef]

\* the arguments of one call and, once it has returned, its value: a string
\* in out, an array in value
NoCall == [op |-> "none", options |-> NoOptions, nonceValue |-> <<>>, shape |-> "",
           t |-> <<>>, text |-> <<>>, out |-> <<>>, value |-> JNull, kind |-> ""]

formatMessageInputs ==
    { [NoCall EXCEPT !.op = "formatMessage", !.options.message = m,
                     !.options.systemPrompt = s] :
        m \in Messages, s \in OptionalPrompts }

buildContextArrayInputs ==
    { [NoCall EXCEPT !.op = "buildContextArray", !.options.conversationId = ids[1],
                     !.options.responseId = ids[2], !.options.choiceId = ids[3]] :
        ids \in OptionalIds("c_123") \X OptionalIds("r_456") \X OptionalIds("rc_789") }

formatGeminiRequestBodyInputs ==
    { [NoCall EXCEPT !.op = "formatGeminiRequestBody", !.options.message = m,
                     !.options.systemPrompt = s, !.options.conversationId = ids[1],
                     !.options.responseId = ids[2], !.options.choiceId = ids[3],
                     !.nonceValue = n] :
        m \in Messages, s \in OptionalPrompts, n \in Nonces,
        ids \in { <<JUndef, JUndef, JUndef>>,
                  <<JStr(<<"c_123">>), JStr(<<"r_456">>), JStr(<<"rc_789">>)>>,
                  <<JStr(<<"c_123">>), JNull, JStr(<<>>)>> } }

\* ---- response texts
Texts ==
    { <<"Hello">>,
      <<"Line", Sp, "1", NL, "Line", Sp, "2", NL>>,
      <<Sp, "My", Sp, Quote, "assignment", Quote, Sp, "is", Sp, "to">>,
      <<"Hello", Sp, NonAscii, Sp, BS, "n">>,
      <<LB, LB, Quote, "wrb.fr", Quote, RB, RB, Sp, Amp, Sp, "107">> }

Guards == { <<>>, <<XSSI>>, <<XSSI, NL>>, <<XSSI, NL, NL>> }

MockInputs ==
    { [NoCall EXCEPT !.op = "parseGeminiResponse", !.shape = "mock", !.t = t,
                     !.text = createMockGeminiResponse(t, <<"c_123">>, <<"r_456">>)] :
        t \in Texts }

\* frames that follow the wrb.fr frame in its outer array, and the lines after
MetaFrames ==
    << JArr(<<JStr(<<"di">>), JNum("317")>>),
       JArr(<<JStr(<<"af.httprm">>), JNum("317"), JStr(<<"-12345">>), JNum("25")>>) >>

EndLine == JSONstringify(JArr(<<JArr(<<JStr(<<"e">>), JNum("4"), JNull, JNull,
                                       JNum("143")>>)>>))

\* a response holding one wrb.fr frame with candidates
ChatInputs ==
    { [NoCall EXCEPT !.op = "parseGeminiResponse", !.shape = "chat", !.t = t,
         !.text = g \o pre
                  \o JSONstringify(JArr(<<WrbFrame(JNull,
                        JSONstringify(ChatPayload(ids,
                                         <<Candidate(<<"choice1">>, t)>> \o more)))>>
                        \o meta))
                  \o post] :
        t \in {<<"First", Sp, "candidate">>, <<"Line", Sp, "1", NL, "107">>},
        g \in {<<>>, <<XSSI, NL>>},
        pre \in {<<>>, <<NL>>, <<"107", NL>>, <<Sp, NL, "107", NL, NL>>},
        ids \in {JNull, JArr(<<JStr(<<"c">>), JStr(<<"r">>)>>)},
        more \in {<<>>, <<Candidate(<<"choice2">>, <<"Second", Sp, "candidate">>)>>},
        meta \in {<<>>, MetaFrames},
        post \in {<<>>, <<NL, "25", NL>> \o EndLine, <<NL, NL>>} }

\* texts in which no wrb.fr frame yields a candidate
Garbage ==
    { <<>>,
      <<"not", Sp, "valid", Sp, "json">>,
      <<LBrace, Quote, "unexpected", Quote, Colon, Sp, Quote, "format", Quote, RBrace>>,
      <<"null">>,
      <<Quote, "text", Quote>>,
      <<LB, RB>>,
      <<LB, "null", RB>>,
      <<LB, LB, RB, RB>>,
      <<LB, LB, Quote, "wrb.fr", Quote>>,
      JSONstringify(JArr(<<JArr(<<WrbFr>>)>>)),
      JSONstringify(JArr(<<JArr(<<WrbFr, JNull, JNull>>)>>)),
      JSONstringify(JArr(<<WrbFrame(JNull, <<"not", Sp, "json">>)>>)),
      JSONstringify(JArr(<<WrbFrame(JNull, <<"null">>)>>)),
      JSONstringify(JArr(<<WrbFrame(JNull, JSONstringify(ChatPayload(JNull, <<>>)))>>)),
      JSONstringify(JArr(<<WrbFrame(JNull,
         JSONstringify(JArr(<<JNull, JArr(<<JStr(<<"c">>), JStr(<<"r">>)>>), JNull,
                              JNull>>)))>>)),
      JSONstringify(JArr(<<WrbFrame(JNull, JSONstringify(ChatPayload(JNull, <<JNull>>)))>>)),
      JSONstringify(JArr(<<WrbFrame(JNull,
         JSONstringify(ChatPayload(JNull, <<JArr(<<JStr(<<"rc">>)>>)>>)))>>)),
      JSONstringify(JArr(<<WrbFrame(JNull,
         JSONstringify(ChatPayload(JNull, <<JArr(<<JStr(<<"rc">>), JArr(<<>>)>>)>>)))>>)),
      JSONstringify(JArr(<<WrbFrame(JNull,
         JSONstringify(ChatPayload(JNull, <<JArr(<<JStr(<<"rc">>), JArr(<<JNull>>)>>)>>)))>>)),
      JSONstringify(JArr(<<JArr(<<JStr(<<"di">>), JNum("317")>>),
                           WrbFrame(JNull, JSONstringify(ChatPayload(JNull,
                              <<Candidate(<<"rc">>, <<"Hello">>)>>)))>>)),
      <<"107", NL>>
         \o JSONstringify(JArr(<<WrbFrame(JStr(<<"PCck7e">>), <<LB, RB>>)>> \o MetaFrames))
         \o <<NL, "25", NL>> \o EndLine,
      <<"107", NL>>
         \o JSONstringify(JArr(<<WrbFrame(JStr(<<"aPya6c">>),
               JSONstringify(JArr(<<JBool("false"), JNum("0"), JArr(<<>>)>>)))>>
               \o MetaFrames)),
      <<"107", NL>>
         \o JSONstringify(JArr(<<WrbFrame(JStr(<<"ESY5D">>),
               JSONstringify(JArr(<<JArr(<<JNull, JNull, JNull, JNull,
                                          JBool("true")>>)>>)))>>)) }

FallbackInputs ==
    { [NoCall EXCEPT !.op = "parseGeminiResponse", !.shape = "fallback", !.t = garbage,
                     !.text = g \o garbage] :
        g \in Guards, garbage \in Garbage }

\* texts that are no response of the service at all
OddInputs ==
    { [NoCall EXCEPT !.op = "parseGeminiResponse", !.shape = "odd", !.text = text] :
        text \in { <<NL, "x", NL>>, <<XSSI, XSSI>>, <<"x", NL, XSSI>>, <<Quote>>, <<BS>>,
                   <<LB, Quote, BS, "u", Quote, RB>>, <<Sp, NL, Sp>>, <<Pct, "22">> } }

parseGeminiResponseInputs == MockInputs \cup ChatInputs \cup FallbackInputs \cup OddInputs

InitCodec ==
    /\ config = NoToml
    /\ saved = config
    /\ snlm0e = <<>>
    /\ bl = <<>>
    /\ pc = [c \in Callers |-> "idle"]
    /\ args = [c \in Callers |-> [prompt |-> <<>>, systemPrompt |-> <<>>]]
    /\ nonce = [c \in Callers |-> <<>>]
    /\ req = [c \in Callers |-> NoReq]
    /\ resp = [c \in Callers |-> NoResp]
    /\ page = [c \in Callers |-> <<>>]
    /\ tomlContent = [c \in Callers |-> NoToml]
    /\ result = [c \in Callers |-> NoResult]
    /\ trace = [c \in Callers |-> <<>>]
    /\ gets = [c \in Callers |-> 0]
    /\ posts = [c \in Callers |-> 0]
    /\ cachedAtStart = [c \in Callers |-> FALSE]
    /\ totalGets = 0
    /\ turns = 0
    /\ probe \in formatMessageInputs \cup buildContextArrayInputs
                 \cup formatGeminiRequestBodyInputs \cup parseGeminiResponseInputs
    /\ run = NoRun

CodecUnchanged ==
    UNCHANGED <<config, saved, snlm0e, bl, pc, args, nonce, req, resp, page, tomlContent,
                result, trace, gets, posts, cachedAtStart, totalGets, turns>>

formatMessageCall ==
    /\ probe.op = "formatMessage"
    /\ probe' = [probe EXCEPT !.op = "formatMessage.done",
                    !.out = formatMessage(probe.options.message, probe.options.systemPrompt)]
    /\ CodecUnchanged

buildContextArrayCall ==
    /\ probe.op = "buildContextArray"
    /\ probe' = [probe EXCEPT !.op = "buildContextArray.done",
                              !.value = buildContextArray(probe.options)]
    /\ CodecUnchanged

formatGeminiRequestBodyCall ==
    /\ probe.op = "formatGeminiRequestBody"
    /\ probe' = [probe EXCEPT !.op = "formatGeminiRequestBody.done",
                    !.out = formatGeminiRequestBody(probe.options, probe.nonceValue)]
    /\ CodecUnchanged

parseGeminiResponseCall ==
    /\ probe.op = "parseGeminiResponse"
    /\ probe' = [probe EXCEPT !.op = "parseGeminiResponse.done",
                              !.out = parseGeminiResponse(probe.text).text,
                              !.kind = parseGeminiResponse(probe.text).kind]
    /\ CodecUnchanged

NextCodec ==
    /\ \/ formatMessageCall
       \/ buildContextArrayCall
       \/ formatGeminiRequestBodyCall
       \/ parseGeminiResponseCall
    /\ UNCHANGED run

SpecCodec == InitCodec /\ [][NextCodec]_vars

\* ======================================================================
\* The command line: `ai agent <query>` (runAgentMode) and the batch a
\* confirmed single query runs (executeCommands)
\* ======================================================================
MAX_AGENT_ITERATIONS == 10

\* executor.ts checkBinaryExists: shell builtins pass, the rest is looked up
\* in PATH (Bun.which); Installed is what the machine has
Builtins == {"cd", "echo", "test"}
Installed == {"ls", "find"}
checkBinaryExists(binary) == binary \in Builtins \/ binary \in Installed

validateTools(tools) ==
    [valid |-> {t \in tools : ~checkBinaryExists(t)} = {},
     missing |-> {t \in tools : ~checkBinaryExists(t)}]

extractAllTools(commands) == UNION {commands[k].tools : k \in 1..Len(commands)}

\* ParsedCommand: the command line and the tools the LLM names for it
ParsedCommands ==
    { [command |-> "ls -la", tools |-> {"ls"}],
      [command |-> "jq . a.json", tools |-> {"jq"}],
      [command |-> "echo hi > out", tools |-> {}] }

CommandLists == UNION { [1..n -> ParsedCommands] : n \in 1..MaxCommands }

\* what provider.generate does and what isAgentDone and parseResponse make
\* of the text it returns
Responses ==
    {[throws |-> TRUE, done |-> FALSE, isError |-> FALSE, commands |-> <<>>],
     [throws |-> FALSE, done |-> TRUE, isError |-> FALSE, commands |-> <<>>],
     [throws |-> FALSE, done |-> FALSE, isError |-> TRUE, commands |-> <<>>],
     [throws |-> FALSE, done |-> FALSE, isError |-> FALSE, commands |-> <<>>]}
    \cup {[throws |-> FALSE, done |-> FALSE, isError |-> FALSE, commands |-> cs] :
             cs \in CommandLists}

\* what the user types at "Execute? (Y/n/stop)" and confirm.toLowerCase().trim()
Answers == {"", "Y", "n", "No", "s", " STOP ", "maybe"}
Normalized(confirm) ==
    CASE confirm = "Y" -> "y"
      [] confirm = "No" -> "no"
      [] confirm = " STOP " -> "stop"
      [] OTHER -> confirm

ExitCodes == {0, 1, 127}
Outputs == {<<>>, <<"out">>}

\* ExecutionResult of executeCommand, for the command it ran
ExecutionResult(command, exitCode, stdout) ==
    [command |-> command, success |-> exitCode = 0, exitCode |-> exitCode,
     stdout |-> stdout]

InitRun ==
    /\ config = NoToml
    /\ saved = config
    /\ snlm0e = <<>>
    /\ bl = <<>>
    /\ pc = [c \in Callers |-> "idle"]
    /\ args = [c \in Callers |-> [prompt |-> <<>>, systemPrompt |-> <<>>]]
    /\ nonce = [c \in Callers |-> <<>>]
    /\ req = [c \in Callers |-> NoReq]
    /\ resp = [c \in Callers |-> NoResp]
    /\ page = [c \in Callers |-> <<>>]
    /\ tomlContent = [c \in Callers |-> NoToml]
    /\ result = [c \in Callers |-> NoResult]
    /\ trace = [c \in Callers |-> <<>>]
    /\ gets = [c \in Callers |-> 0]
    /\ posts = [c \in Callers |-> 0]
    /\ cachedAtStart = [c \in Callers |-> FALSE]
    /\ totalGets = 0
    /\ turns = 0
    /\ probe = NoProbe
    /\ \/ run = [NoRun EXCEPT !.op = "runAgentMode", !.pc = "loop"]
       \/ \E cs \in CommandLists : \E interactive \in BOOLEAN :
             run = [NoRun EXCEPT !.op = "executeCommands", !.pc = "exec", !.commands = cs,
                                 !.i = 1, !.interactive = interactive]

Ended(reason) == [run EXCEPT !.pc = "ended", !.reason = reason]

\* variant: while (state.iteration <= MAX_AGENT_ITERATIONS)
AgentIterateOffByOne ==
    /\ run.op = "runAgentMode" /\ run.pc = "loop"
    /\ IF run.iteration <= MAX_AGENT_ITERATIONS
       THEN run' = [run EXCEPT !.iteration = @ + 1, !.requests = @ + 1,
                               !.pc = "awaitLLM", !.commands = <<>>, !.i = 0,
                               !.combinedOutput = <<>>, !.results = <<>>,
                               !.validation = "none", !.normalized = "none"]
       ELSE run' = Ended("max")

\* agent.ts 33-50 and 149-153: the loop test, state.iteration++ and the call
\* of provider.generate, up to its await
AgentIterate ==
    /\ run.op = "runAgentMode" /\ run.pc = "loop"
    /\ IF run.iteration < MAX_AGENT_ITERATIONS
       THEN run' = [run EXCEPT !.iteration = @ + 1, !.requests = @ + 1,
                               !.pc = "awaitLLM", !.commands = <<>>, !.i = 0,
                               !.combinedOutput = <<>>, !.results = <<>>,
                               !.validation = "none", !.normalized = "none"]
       ELSE run' = Ended("max")

\* variant: the tools are not validated
AgentResponseUnvalidated ==
    /\ run.op = "runAgentMode" /\ run.pc = "awaitLLM"
    /\ \E r \in Responses :
          run' = IF r.throws THEN Ended("llmError")
                 ELSE IF r.done THEN Ended("done")
                 ELSE IF r.isError THEN Ended("parseError")
                 ELSE IF r.commands = <<>> THEN Ended("noCommands")
                 ELSE [run EXCEPT !.commands = r.commands, !.pc = "awaitConfirm"]

\* agent.ts 51-107: generate has returned or thrown; DONE check, parse,
\* validateTools, up to the await of readLine
AgentResponse ==
    /\ run.op = "runAgentMode" /\ run.pc = "awaitLLM"
    /\ \E r \in Responses :
          run' = IF r.throws THEN Ended("llmError")
                 ELSE IF r.done THEN Ended("done")
                 ELSE IF r.isError THEN Ended("parseError")
                 ELSE IF r.commands = <<>> THEN Ended("noCommands")
                 ELSE IF ~validateTools(extractAllTools(r.commands)).valid
                 THEN [run EXCEPT !.commands = r.commands, !.validation = "missing",
                          !.lastOutput = MsgMissingTools(
                              validateTools(extractAllTools(r.commands)).missing),
                          !.pc = "loop"]
                 ELSE [run EXCEPT !.commands = r.commands, !.validation = "valid",
                                  !.pc = "awaitConfirm"]

\* agent.ts 107-122: the answer to "Execute? (Y/n/stop)"
AgentConfirm ==
    /\ run.op = "runAgentMode" /\ run.pc = "awaitConfirm"
    /\ \E confirm \in Answers :
          run' = IF Normalized(confirm) \in {"stop", "s"}
                 THEN [Ended("stop") EXCEPT !.normalized = Normalized(confirm)]
                 ELSE IF Normalized(confirm) \in {"n", "no"}
                 THEN [run EXCEPT !.normalized = Normalized(confirm),
                                  !.lastOutput = MsgSkipped, !.pc = "loop"]
                 ELSE [run EXCEPT !.normalized = Normalized(confirm), !.pc = "exec",
                                  !.i = 1, !.combinedOutput = <<>>]

\* variant: the loop goes on after a failed command
AgentExecuteNoBreak ==
    /\ run.op = "runAgentMode" /\ run.pc = "exec"
    /\ \E exitCode \in ExitCodes : \E stdout \in Outputs :
          LET res == ExecutionResult(run.commands[run.i].command, exitCode, stdout)
              combined == run.combinedOutput \o stdout
                          \o (IF res.success THEN <<>> ELSE MsgFailed(exitCode))
          IN  run' = IF run.i = Len(run.commands)
                     THEN [run EXCEPT !.results = Append(@, res),
                              !.combinedOutput = combined,
                              !.lastOutput = IF combined = <<>> THEN MsgNoOutput
                                             ELSE Output(combined),
                              !.pc = "loop"]
                     ELSE [run EXCEPT !.results = Append(@, res),
                              !.combinedOutput = combined, !.i = @ + 1]

\* agent.ts 124-146: one turn of the for-loop, executeCommand awaited; after
\* the last command or a failed one, state.lastOutput is set
AgentExecute ==
    /\ run.op = "runAgentMode" /\ run.pc = "exec"
    /\ \E exitCode \in ExitCodes : \E stdout \in Outputs :
          LET res == ExecutionResult(run.commands[run.i].command, exitCode, stdout)
              combined == run.combinedOutput \o stdout
                          \o (IF res.success THEN <<>> ELSE MsgFailed(exitCode))
          IN  run' = IF ~res.success \/ run.i = Len(run.commands)
                     THEN [run EXCEPT !.results = Append(@, res),
                              !.combinedOutput = combined,
                              !.lastOutput = IF combined = <<>> THEN MsgNoOutput
                                             ELSE Output(combined),
                              !.pc = "loop"]
                     ELSE [run EXCEPT !.results = Append(@, res),
                              !.combinedOutput = combined, !.i = @ + 1]

\* executor.ts 178-213: one turn of the for-loop of executeCommands; with
\* interactive the child writes to the terminal and only its exit code is kept
executeCommandsStep ==
    /\ run.op = "executeCommands" /\ run.pc = "exec"
    /\ \E exitCode \in ExitCodes : \E stdout \in Outputs :
          LET res == ExecutionResult(run.commands[run.i].command, exitCode,
                                     IF run.interactive THEN <<>> ELSE stdout)
          IN  run' = IF ~res.success \/ run.i = Len(run.commands)
                     THEN [Ended("returned") EXCEPT !.results = Append(@, res)]
                     ELSE [run EXCEPT !.results = Append(@, res), !.i = @ + 1]

NextRun ==
    /\ \/ AgentIterate
       \/ AgentResponse
       \/ AgentConfirm
       \/ AgentExecute
       \/ executeCommandsStep
    /\ UNCHANGED <<config, saved, snlm0e, bl, pc, args, nonce, req, resp, page,
                   tomlContent, result, trace, gets, posts, cachedAtStart, totalGets,
                   turns, probe>>

SpecRun == InitRun /\ [][NextRun]_vars

\* every await of a run returns: the LLM answers or fails, the user answers,
\* a started command exits
SpecRunFair == SpecRun /\ WF_vars(NextRun)

\* ======================================================================
\* Configuration files: config.ts saveConfig and loadConfig, the caller
\* that saves a configuration (the setup wizard, a test), and the provider
\* persisting a rotation
\* ======================================================================
\* A JavaScript object is the function from its defined keys to their
\* values; a key whose value is undefined is left out.  A string is a
\* sequence of tokens.
EmptyObject == [k \in {} |-> 0]
Has(o, k) == k \in DOMAIN o

\* { ...a, ...b }
Spread(a, b) == [k \in DOMAIN a \cup DOMAIN b |-> IF k \in DOMAIN b THEN b[k] ELSE a[k]]

\* the object literal { k: o.k, ... } for the keys ks
Pick(o, ks) == [k \in ks \cap DOMAIN o |-> o[k]]

DEFAULTS == [max_commands |-> 7, max_planning_iterations |-> 5]
DEFAULT_PROVIDER == <<"ollama">>

\* A TOML document is its sequence of lines: a table header, or a key with a
\* string or an integer under the table named by path
TomlTable(path) == [kind |-> "table", path |-> path, key |-> <<>>, str |-> <<>>, int |-> 0]
TomlString(path, key, s) ==
    [kind |-> "string", path |-> path, key |-> key, str |-> s, int |-> 0]
TomlInteger(path, key, n) ==
    [kind |-> "integer", path |-> path, key |-> key, str |-> <<>>, int |-> n]
TomlGarbage == [kind |-> "garbage", path |-> <<>>, key |-> <<>>, str |-> <<>>, int |-> 0]

StringLines(path, o, order) ==
    LET ks == SelectSeq(order, LAMBDA k : Has(o, k))
    IN  [i \in 1..Len(ks) |-> TomlString(path, <<ks[i]>>, o[ks[i]])]

IntegerLines(path, o, order) ==
    LET ks == SelectSeq(order, LAMBDA k : Has(o, k))
    IN  [i \in 1..Len(ks) |-> TomlInteger(path, <<ks[i]>>, o[ks[i]])]

CookieLines(cookies) ==
    [i \in 1..Len(cookies) |->
        TomlString(<<"gemini", "cookies">>, cookies[i].name, cookies[i].value)]

ServerLines(o, name) ==
    IF Has(o, name)
    THEN <<TomlTable(<<name>>)>> \o StringLines(<<name>>, o[name], <<"url", "model">>)
    ELSE <<>>

LimitLines(o, name) ==
    IF Has(o, name)
    THEN <<TomlTable(<<name>>)>>
         \o IntegerLines(<<name>>, o[name], <<"max_commands", "max_planning_iterations">>)
    ELSE <<>>

\* TOML.stringify of the object saveConfig builds: undefined values are
\* skipped, every object becomes a table
TOMLstringify(o) ==
    (IF Has(o, "active_provider")
     THEN <<TomlString(<<>>, <<"active_provider">>, o.active_provider)>> ELSE <<>>)
    \o ServerLines(o, "ollama")
    \o (IF Has(o, "gemini")
        THEN <<TomlTable(<<"gemini">>)>>
             \o (IF Has(o.gemini, "cookies")
                 THEN <<TomlTable(<<"gemini", "cookies">>)>> \o CookieLines(o.gemini.cookies)
                 ELSE <<>>)
        ELSE <<>>)
    \o ServerLines(o, "lm_studio")
    \o LimitLines(o, "default")
    \o LimitLines(o, "agent")

\* the keys and values a document puts under the table path
ValuesAt(doc, path) ==
    LET at == {i \in 1..Len(doc) : doc[i].path = path /\ doc[i].kind \in {"string", "integer"}}
        last(k) == CHOOSE i \in at : doc[i].key = <<k>> /\ \A j \in at : doc[j].key = <<k>> => j <= i
    IN  [k \in {doc[i].key[1] : i \in at} |->
            IF doc[last(k)].kind = "string" THEN doc[last(k)].str ELSE doc[last(k)].int]

IsCookieLine(line) == line.path = <<"gemini", "cookies">> /\ line.kind = "string"

CookiesAt(doc) ==
    LET ls == SelectSeq(doc, IsCookieLine)
    IN  [i \in 1..Len(ls) |-> [name |-> ls[i].key, value |-> ls[i].str]]

\* TOML.parse: a syntax error throws; otherwise the object of the root keys
\* and one object per table
TOMLparse(doc) ==
    IF \E i \in 1..Len(doc) : doc[i].kind = "garbage"
    THEN [ok |-> FALSE, value |-> EmptyObject]
    ELSE LET paths == {doc[i].path : i \in 1..Len(doc)} \ {<<>>}
             tables == [t \in {p[1] : p \in paths} |->
                          IF t = "gemini" /\ <<"gemini", "cookies">> \in paths
                          THEN Spread(ValuesAt(doc, <<t>>), [cookies |-> CookiesAt(doc)])
                          ELSE ValuesAt(doc, <<t>>)]
         IN  [ok |-> TRUE, value |-> Spread(ValuesAt(doc, <<>>), tables)]

ProviderNames == {<<"ollama">>, <<"gemini">>, <<"lm_studio">>}

\* this.config.gemini as the provider reads it
GeminiOf(c) ==
    IF Has(c, "gemini") /\ Has(c.gemini, "cookies")
    THEN [hasGemini |-> TRUE, cookies |-> c.gemini.cookies]
    ELSE NoToml

\* config.ts validateConfigRequired, all of it.  A value read from a document
\* of the input sets under url or model is a string, so `typeof x !==
\* "string"` is the key being absent.
validateConfigRequiredOf(c) ==
    /\ Has(c, "active_provider") => c.active_provider \in ProviderNames
    /\ LET activeProvider ==
               IF Has(c, "active_provider") THEN c.active_provider ELSE DEFAULT_PROVIDER
       IN  /\ activeProvider = <<"ollama">> =>
                 Has(c, "ollama") /\ Has(c.ollama, "url") /\ Has(c.ollama, "model")
           /\ activeProvider = <<"gemini">> => validateConfigRequired(GeminiOf(c))
           /\ activeProvider = <<"lm_studio">> =>
                 Has(c, "lm_studio") /\ Has(c.lm_studio, "url") /\ Has(c.lm_studio, "model")

\* config.ts mergeWithDefaults
mergeWithDefaults(parsed) ==
    LET defaultConfig ==
            Spread(DEFAULTS, IF Has(parsed, "default") THEN parsed.default ELSE EmptyObject)
        agentConfig ==
            Spread(defaultConfig, IF Has(parsed, "agent") THEN parsed.agent ELSE EmptyObject)
    IN  Spread([active_provider |-> IF Has(parsed, "active_provider")
                                    THEN parsed.active_provider ELSE DEFAULT_PROVIDER,
                default |-> defaultConfig,
                agent |-> agentConfig],
               Pick(parsed, {"ollama", "gemini"}))

\* the files at getConfigPaths().local and .global
NoFile == [exists |-> FALSE, content |-> <<>>]
FileOf(doc) == [exists |-> TRUE, content |-> doc]

\* loadConfig, one of its two blocks: the file is there, parses and is valid
Readable(file) ==
    /\ file.exists
    /\ TOMLparse(file.content).ok
    /\ validateConfigRequiredOf(TOMLparse(file.content).value)

NoConfig == [isNull |-> TRUE, config |-> EmptyObject, from |-> "none"]

\* config.ts loadConfig: the local file first, then the global one
loadConfig(files) ==
    IF Readable(files.local)
    THEN [isNull |-> FALSE, from |-> "local",
          config |-> mergeWithDefaults(TOMLparse(files.local.content).value)]
    ELSE IF Readable(files.global)
    THEN [isNull |-> FALSE, from |-> "global",
          config |-> mergeWithDefaults(TOMLparse(files.global.content).value)]
    ELSE NoConfig

\* config.ts saveConfig(config, global = true)
saveConfig(files, cfg, global) ==
    [files EXCEPT ![IF global THEN "global" ELSE "local"] =
        FileOf(TOMLstringify(Pick(cfg, {"active_provider", "ollama", "gemini",
                                        "lm_studio", "default", "agent"})))]

\* ---------------------------------------------------------------- inputs
OllamaSection == [url |-> <<"http://localhost:11434">>, model |-> <<"test-model">>]
LMStudioSection == [url |-> <<"http://localhost:1234/v1">>, model |-> <<"local-model">>]
GeminiSection == [cookies |-> <<[name |-> PSID, value |-> V0], [name |-> PSIDTS, value |-> V0]>>]
SetupDefault == [max_commands |-> 7, max_planning_iterations |-> 5]
SetupAgent == [max_commands |-> 10, max_planning_iterations |-> 5]

\* setup.ts runSetup: the section of the chosen provider and the limits
SetupConfig(provider) ==
    Spread([active_provider |-> <<provider>>, default |-> SetupDefault, agent |-> SetupAgent],
           CASE provider = "ollama" -> [ollama |-> OllamaSection]
             [] provider = "gemini" -> [gemini |-> GeminiSection]
             [] provider = "lm_studio" -> [lm_studio |-> LMStudioSection])

\* config.test.ts lines 80-84
TestConfig ==
    [ollama |-> OllamaSection, default |-> [max_commands |-> 7],
     agent |-> [max_commands |-> 10]]

SavedConfigs ==
    {SetupConfig("ollama"), SetupConfig("gemini"), SetupConfig("lm_studio"), TestConfig}

\* what the two paths hold when the first process starts: nothing, a file an
\* earlier setup wrote, a file that names a provider without its section, a
\* file that is not TOML
InitialFiles ==
    { NoFile,
      FileOf(TOMLstringify(SetupConfig("gemini"))),
      FileOf(TOMLstringify(SetupConfig("ollama"))),
      FileOf(<<TomlString(<<>>, <<"active_provider">>, <<"gemini">>)>>),
      FileOf(<<TomlGarbage>>) }

\* the process: op is where it stands, files the two files, loaded what
\* loadConfig returned (and the provider has mutated since), fresh whether
\* nothing has touched it since, arg and global the arguments of the last
\* saveConfig call of a caller, last the last writer of a file, rotated the
\* cookie map the provider held when it last persisted a rotation
InitConfig ==
    /\ config = NoToml
    /\ saved = config
    /\ snlm0e = <<>>
    /\ bl = <<>>
    /\ pc = [c \in Callers |-> "idle"]
    /\ args = [c \in Callers |-> [prompt |-> <<>>, systemPrompt |-> <<>>]]
    /\ nonce = [c \in Callers |-> <<>>]
    /\ req = [c \in Callers |-> NoReq]
    /\ resp = [c \in Callers |-> NoResp]
    /\ page = [c \in Callers |-> <<>>]
    /\ tomlContent = [c \in Callers |-> NoToml]
    /\ result = [c \in Callers |-> NoResult]
    /\ trace = [c \in Callers |-> <<>>]
    /\ gets = [c \in Callers |-> 0]
    /\ posts = [c \in Callers |-> 0]
    /\ cachedAtStart = [c \in Callers |-> FALSE]
    /\ totalGets = 0
    /\ turns = 0
    /\ run = NoRun
    /\ \E l \in InitialFiles, g \in InitialFiles :
          probe = [op |-> "start", files |-> [local |-> l, global |-> g],
                   loaded |-> NoConfig, fresh |-> FALSE, arg |-> EmptyObject,
                   global |-> TRUE, last |-> "none", rotated |-> <<>>]

\* a caller saves a configuration: runSetup (global) or a test (local)
saveConfigCall ==
    /\ probe.op = "start"
    /\ \E cfg \in SavedConfigs, global \in BOOLEAN :
          probe' = [probe EXCEPT !.op = "saved",
                                 !.files = saveConfig(probe.files, cfg, global),
                                 !.arg = cfg, !.global = global, !.last = "save"]

\* main: let config = await loadConfig()
loadConfigCall ==
    /\ probe.op \in {"start", "saved"}
    /\ probe' = [probe EXCEPT !.op = "loaded", !.loaded = loadConfig(probe.files),
                              !.fresh = TRUE]

\* GeminiProvider.updateCookies on the loaded configuration, with the
\* Set-Cookie entries of a response: the loop, and saveConfig(this.config)
\* when an entry changed the map
updateCookiesLoaded ==
    /\ probe.op = "loaded"
    /\ ~probe.loaded.isNull
    /\ probe.loaded.config.active_provider = <<"gemini">>
    /\ \E sc \in ResponseSetCookies :
          LET upd == updateCookiesOf(GeminiOf(probe.loaded.config), sc)
              cfg == Spread(probe.loaded.config, [gemini |-> [cookies |-> upd.config.cookies]])
          IN  /\ upd.config.hasGemini
              /\ probe' = IF upd.changed
                          THEN [probe EXCEPT !.loaded.config = cfg, !.fresh = FALSE,
                                             !.files = saveConfig(probe.files, cfg, TRUE),
                                             !.last = "rotation",
                                             !.rotated = upd.config.cookies]
                          ELSE [probe EXCEPT !.loaded.config = cfg, !.fresh = FALSE]

\* the process ends; the next one starts with the files it left
exitProcess ==
    /\ probe.op = "loaded"
    /\ probe' = [probe EXCEPT !.op = "start", !.loaded = NoConfig, !.fresh = FALSE]

NextConfig ==
    /\ \/ saveConfigCall
       \/ loadConfigCall
       \/ updateCookiesLoaded
       \/ exitProcess
    /\ UNCHANGED <<config, saved, snlm0e, bl, pc, args, nonce, req, resp, page,
                   tomlContent, result, trace, gets, posts, cachedAtStart, totalGets,
                   turns, run>>

SpecConfig == InitConfig /\ [][NextConfig]_vars

\* ======================================================================
\* Properties
\* ======================================================================
Active(c) == pc[c] \notin {"idle"}
InFlight(c) == pc[c] \in {"awaitGet", "awaitPost"}
IsPrefix(a, b) == Len(a) <= Len(b) /\ SubSeq(b, 1, Len(a)) = a
Count(tr, ev) == Cardinality({i \in 1..Len(tr) : tr[i] = ev})
After(tr, ev) ==
    LET i == CHOOSE j \in 1..Len(tr) : tr[j] = ev IN SubSeq(tr, i + 1, Len(tr))

\* the chat call of caller c ended on a non-2xx response
StatusFailure(c) ==
    /\ pc[c] = "done"
    /\ posts[c] = 1
    /\ resp[c].status # 0
    /\ ~(resp[c].status \in 200..299)

\* ---------------------------------------------------------------- C1
\* C1 as stated: over any sequence of calls on one client the bootstrap page
\* is fetched at most once.
C1_FetchedAtMostOnce == totalGets <= 1

\* C1 (amended): once the nonce is cached, no further bootstrap GET is issued
\* and the cached nonce and backend version never change again; only a call
\* that starts without a cached nonce fetches the page.
C1_CachedNeverRefetched ==
    [][snlm0e # <<>> => /\ totalGets' = totalGets
                        /\ snlm0e' = snlm0e
                        /\ bl' = bl]_vars

\* a later call ran to its end on the nonce an earlier call cached
C1_Witness ==
    \E c \in Callers : /\ pc[c] = "done"
                       /\ cachedAtStart[c]
                       /\ posts[c] = 1
                       /\ totalGets = 1
                       /\ nonce[c] = snlm0e

\* ---------------------------------------------------------------- C2
PostOrders ==
    { <<"cookies", "save", "status", "decode", "return">>,
      <<"cookies", "status", "decode", "return">>,
      <<"cookies", "save", "status", "raise">>,
      <<"cookies", "status", "raise">>,
      <<"raise">> }

\* C2: within one call the steps are ordered nonce ensured (after the
\* bootstrap GET when one was needed) -> one chat POST -> cookie update of
\* the POST response -> status check -> body decode; a non-2xx POST response
\* has its cookies applied and persisted before the error is raised, and the
\* body is decoded only after a 2xx status.
C2_Order ==
    \A c \in Callers :
        LET tr == trace[c] IN
        /\ Count(tr, "POST") <= 1
        /\ \A i \in 1..Len(tr) :
              tr[i] = "POST" =>
                 /\ i > 1 /\ tr[i - 1] = "nonce"
                 /\ \A j \in 1..Len(tr) : tr[j] = "GET" => j < i
                 /\ \E full \in PostOrders : IsPrefix(SubSeq(tr, i + 1, Len(tr)), full)
        /\ \A i \in 1..Len(tr) :
              (tr[i] = "nonce" /\ Count(tr, "GET") > 0) =>
                 \E j \in 1..(i - 1) : tr[j] = "GET"
        /\ Count(tr, "decode") > 0 => resp[c].status \in 200..299
        /\ StatusFailure(c) =>
              /\ After(tr, "POST") \in { <<"cookies", "save", "status", "raise">>,
                                         <<"cookies", "status", "raise">> }
              /\ saved.cookies = config.cookies

\* a non-2xx POST response rotated a cookie, it was saved, the error raised
C2_Witness ==
    \E c \in Callers : /\ StatusFailure(c)
                       /\ After(trace[c], "POST") = <<"cookies", "save", "status", "raise">>
                       /\ Count(trace[c], "GET") = 1

FirstIdx(e, tok) ==
    IF Contains(e, tok)
    THEN CHOOSE i \in 1..Len(e) : e[i] = tok /\ \A k \in 1..(i - 1) : e[k] # tok
    ELSE Len(e) + 1
EntryName(e) == SubSeq(e, 1, FirstIdx(e, Eq) - 1)
EntryValue(e) == SubSeq(e, FirstIdx(e, Eq) + 1, FirstIdx(e, Semi) - 1)
Named(n, es) == \E i \in 1..Len(es) : EntryName(es[i]) = n
LastFor(n, es) ==
    es[CHOOSE i \in 1..Len(es) :
          /\ EntryName(es[i]) = n
          /\ \A k \in (i + 1)..Len(es) : EntryName(es[k]) # n]
Usable(e) == EntryName(e) # <<>> /\ EntryValue(e) # <<>>
UsableOf(es) == SelectSeq(es, Usable)
Applied == probe.op = "updateCookies.done" /\ probe.before.hasGemini

\* C4 as stated: after the rule is applied, map[name] = value for every
\* Set-Cookie entry (the last entry for a name wins), and every cookie the
\* response does not name is unchanged.
C4_EveryEntryStored ==
    Applied =>
       /\ \A i \in 1..Len(probe.setCookies) :
             LET n == EntryName(probe.setCookies[i]) IN
             /\ HasCookie(config.cookies, n)
             /\ CookieValue(config.cookies, n) = EntryValue(LastFor(n, probe.setCookies))
       /\ \A k \in 1..Len(probe.before.cookies) :
             LET n == probe.before.cookies[k].name IN
             ~Named(n, probe.setCookies) =>
                /\ HasCookie(config.cookies, n)
                /\ CookieValue(config.cookies, n) = probe.before.cookies[k].value

\* C4 (amended): after the rule is applied, map[name] = value for every
\* Set-Cookie entry whose name and value are both non-empty (attributes
\* ignored, a value containing "=" kept whole, the last such entry for a name
\* wins); entries with an empty name or value are skipped, and every cookie
\* not named by a non-skipped entry is unchanged and none is added.
C4_NonEmptyEntriesStored ==
    Applied =>
       LET es == UsableOf(probe.setCookies) IN
       /\ \A i \in 1..Len(es) :
             /\ HasCookie(config.cookies, EntryName(es[i]))
             /\ CookieValue(config.cookies, EntryName(es[i]))
                   = EntryValue(LastFor(EntryName(es[i]), es))
       /\ \A k \in 1..Len(probe.before.cookies) :
             LET n == probe.before.cookies[k].name IN
             ~Named(n, es) =>
                /\ HasCookie(config.cookies, n)
                /\ CookieValue(config.cookies, n) = probe.before.cookies[k].value
       /\ \A k \in 1..Len(config.cookies) :
             \/ Named(config.cookies[k].name, es)
             \/ HasCookie(probe.before.cookies, config.cookies[k].name)

\* a value holding "=" was stored whole while an empty-valued entry for
\* another, stored cookie was skipped
C4_Witness ==
    /\ Applied
    /\ HasCookie(config.cookies, PSIDTS)
    /\ CookieValue(config.cookies, PSIDTS) = <<"a", Eq, "b">>
    /\ \E i \in 1..Len(probe.setCookies) : ~Usable(probe.setCookies[i])
    /\ HasCookie(config.cookies, PSID)
    /\ probe.changed

\* ---------------------------------------------------------------- C5
\* the messages of the errors a failure to reach the service ends in
IsTransportError(e) ==
    \/ e.name = "TypeError"
    \/ Contains(e.message, "TypeError")

\* C5: without a configured Gemini cookie map a call fails with an error
\* that tells the user to run 'ai setup' and is not a transport error; no
\* request is issued, and nonce cache and cookie map stay as they were.
C5_MissingCredentials ==
    ~config.hasGemini =>
       /\ \A c \in Callers :
             /\ req[c] = NoReq
             /\ gets[c] = 0 /\ posts[c] = 0
             /\ ~InFlight(c)
             /\ Active(c) =>
                   /\ pc[c] = "done"
                   /\ result[c].kind = "error"
                   /\ Contains(result[c].error.message, "'ai setup'")
                   /\ ~IsTransportError(result[c].error)
       /\ totalGets = 0
       /\ snlm0e = <<>> /\ bl = <<>>
       /\ config.cookies = <<>> /\ saved = config

\* a call on a client without credentials has ended
C5_Witness ==
    \E c \in Callers : ~config.hasGemini /\ pc[c] = "done" /\ result[c].kind = "error"

\* ---------------------------------------------------------------- C6
\* the page text holds a literal "SNlM0e":"<value>" with a non-empty value
HoldsNonceLiteral(text) ==
    \E i \in 1..Len(text), j \in 1..Len(text) :
        /\ text[i] = KeySN
        /\ j >= i + 2
        /\ text[j] \in {Quote, KeySN, KeyBL}
        /\ \A k \in (i + 1)..(j - 1) : text[k] \notin {Quote, KeySN, KeyBL}

\* C6: when the bootstrap page holds no nonce, the call fails with an error
\* that points at the credentials, issues no chat POST, and caches no nonce.
C6_NonceNotFound ==
    \A c \in Callers :
        (page[c] # <<>> /\ ~HoldsNonceLiteral(page[c])) =>
           /\ pc[c] = "done"
           /\ result[c].kind = "error"
           /\ Contains(result[c].error.message, "Cookies might be invalid.")
           /\ ~IsTransportError(result[c].error)
           /\ posts[c] = 0
           /\ nonce[c] = <<>>
           /\ snlm0e = <<>> /\ bl = <<>>

\* a call read a page with an empty nonce value and has ended
C6_Witness ==
    \E c \in Callers : page[c] = PageEmptyNonce /\ pc[c] = "done"

C8_OneRequestPerCall ==
    \A c \in Callers :
        /\ posts[c] <= 1 /\ gets[c] <= 1
        /\ Count(trace[c], "POST") = posts[c]
        /\ Count(trace[c], "GET") = gets[c]
        /\ Count(trace[c], "raise") > 0 =>
              /\ trace[c][Len(trace[c])] = "raise"
              /\ pc[c] = "done"
              /\ ~InFlight(c)
        /\ (cachedAtStart[c] /\ pc[c] = "done") => posts[c] = 1 /\ gets[c] = 0
        /\ (~cachedAtStart[c] /\ posts[c] = 1) => gets[c] = 1

\* a call that started on a cached nonce failed in transport after one POST
C8_Witness ==
    \E c \in Callers : /\ pc[c] = "done"
                       /\ cachedAtStart[c]
                       /\ posts[c] = 1
                       /\ IsTransportError(result[c].error)

\* ---------------------------------------------------------------- C9
\* C9 as stated: when two calls overlap while no nonce is cached, only one
\* bootstrap fetch is issued and both calls use the same nonce.
C9_SingleFlight ==
    \A c \in Callers : \A d \in Callers \ {c} :
        (Active(c) /\ Active(d) /\ ~cachedAtStart[c] /\ ~cachedAtStart[d]) =>
           /\ gets[c] + gets[d] <= 1
           /\ (nonce[c] # <<>> /\ nonce[d] # <<>>) => nonce[c] = nonce[d]

\* C9 (amended): the step is not serialized. Each of two overlapping calls
\* that found no nonce cached issues its own bootstrap fetch, one per call,
\* and posts with the nonce scraped from the page it fetched itself (the two
\* nonces may differ); a call that found the nonce cached fetches nothing.
C9_OneFetchPerCall ==
    \A c \in Callers :
        /\ gets[c] <= 1
        /\ Active(c) => (gets[c] = 1 <=> ~cachedAtStart[c])
        /\ (nonce[c] # <<>> /\ ~cachedAtStart[c]) =>
              /\ HoldsNonceLiteral(page[c])
              /\ \E i \in 1..Len(page[c]) :
                    /\ page[c][i] = KeySN
                    /\ SubSeq(page[c], i + 1, i + Len(nonce[c])) = nonce[c]
        /\ pc[c] = "awaitPost" => req[c].at = nonce[c]

\* both overlapping calls fetched the page and hold different nonces
C9_Witness ==
    \E c \in Callers : \E d \in Callers \ {c} :
        /\ gets[c] = 1 /\ gets[d] = 1
        /\ pc[c] = "awaitPost" /\ pc[d] = "awaitPost"
        /\ req[c].at # req[d].at

\* ---------------------------------------------------------------- C10
\* C10: whenever a request is in flight, both auth cookies are in the cookie
\* map and in the Cookie header of the request.
C10_AuthCookiesPresent ==
    \A c \in Callers :
        (InFlight(c) /\ validateConfigRequired(config)) =>
           /\ HasCookie(config.cookies, PSID)
           /\ HasCookie(config.cookies, PSIDTS)
           /\ Contains(req[c].cookie, PSID[1])
           /\ Contains(req[c].cookie, PSIDTS[1])

\* ---------------------------------------------------------------- C11
\* body.match(/f\.req=([^&]+)/)[1]: what follows "f.req=" up to the first "&"
FReqOf(body) ==
    LET rest == SubSeq(body, 3, Len(body))
    IN  IF Contains(rest, Amp)
        THEN SubSeq(rest, 1, (CHOOSE i \in 1..Len(rest) :
                                 /\ rest[i] = Amp
                                 /\ \A k \in 1..(i - 1) : rest[k] # Amp) - 1)
        ELSE rest

\* url-decode, parse the outer envelope, parse its element 1 as JSON again
DecodeFReq(body) ==
    LET u == decodeURIComponent(FReqOf(body))
        o == JSONparse(u.s)
        twoElems == o.ok /\ o.v.t = "array" /\ Len(o.v.a) = 2 /\ o.v.a[2].t = "string"
        i == JSONparse(o.v.a[2].s)
    IN  IF Len(body) >= 2 /\ SubSeq(body, 1, 2) = <<"f.req", Eq>> /\ u.ok /\ twoElems /\ i.ok
        THEN [ok |-> TRUE, outer |-> o.v, inner |-> i.v]
        ELSE [ok |-> FALSE, outer |-> JNull, inner |-> JNull]

FreshContext == JArr(<<JNull, JNull, JNull>>)

\* C11 as stated: the f.req value of every chat POST decodes to
\* [[formatMessage(message, systemPrompt)], null, [null, null, null]] (a call
\* of the provider never continues a conversation), and the body ends in the
\* nonce the call holds.
C11_BodyIsCodecEncoding ==
    \A c \in Callers :
        req[c].method = "POST" =>
           /\ DecodeFReq(req[c].body).ok
           /\ DecodeFReq(req[c].body).inner =
                 JArr(<<JArr(<<JStr(formatMessage(args[c].prompt,
                                                  JStr(args[c].systemPrompt)))>>),
                        JNull, FreshContext>>)
           /\ req[c].body =
                 formatGeminiRequestBody(
                    [message |-> args[c].prompt, systemPrompt |-> JStr(args[c].systemPrompt),
                     conversationId |-> JUndef, responseId |-> JUndef, choiceId |-> JUndef],
                    nonce[c])

\* ---------------------------------------------------------------- C12
\* the first line of a response that yields a text, parsed twice
ChatPayloadOf(text) ==
    LET lines == Lines(StripXSSI(text))
        k == CHOOSE j \in 1..Len(lines) :
                /\ LineOutcome(lines[j]).kind = "text"
                /\ \A m \in 1..(j - 1) : LineOutcome(lines[m]).kind # "text"
    IN  JSONparse(JSONparse(lines[k]).v.a[1].a[3].s).v

HasChatPayload(text) ==
    \E j \in 1..Len(Lines(StripXSSI(text))) :
        LineOutcome(Lines(StripXSSI(text))[j]).kind = "text"

\* payload[1] = [conversationId, responseId]; candidates[0][0] = choiceId
HasIds(payload) ==
    /\ payload.a[2].t = "array" /\ Len(payload.a[2].a) >= 2
    /\ payload.a[5].a[1].a[1].t = "string"

\* value.name of a JavaScript value: undefined unless value is an object
\* that has the key
Field(value, name) ==
    IF value.t = "object" /\ \E i \in 1..(Len(value.a) \div 2) : value.a[2 * i - 1] = JStr(<<name>>)
    THEN value.a[2 * (CHOOSE i \in 1..(Len(value.a) \div 2) :
                         value.a[2 * i - 1] = JStr(<<name>>))]
    ELSE JUndef

\* C12 as stated: a call that returns after a response whose payload carries
\* [conversationId, responseId] at index 1 and a first candidate returns, with
\* the text, these two ids and the candidate's choiceId.
C12_ReturnsContinuationIds ==
    \A c \in Callers :
        (pc[c] = "done" /\ result[c].kind = "ok" /\ HasChatPayload(resp[c].text)
         /\ HasIds(ChatPayloadOf(resp[c].text))) =>
           LET payload == ChatPayloadOf(resp[c].text)
           IN  /\ \/ ReturnValue(result[c]) = payload.a[5].a[1].a[2].a[1]
                  \/ Field(ReturnValue(result[c]), "text") = payload.a[5].a[1].a[2].a[1]
               /\ Field(ReturnValue(result[c]), "conversationId") = payload.a[2].a[1]
               /\ Field(ReturnValue(result[c]), "responseId") = payload.a[2].a[2]
               /\ Field(ReturnValue(result[c]), "choiceId") = payload.a[5].a[1].a[1]

\* ---------------------------------------------------------------------
\* Properties of the decoder, under SpecCodec
\* ---------------------------------------------------------------------
Decoding(shape) == probe.op = "parseGeminiResponse.done" /\ probe.shape = shape

\* C13: parseGeminiResponse never raises: whatever the input is (empty, the
\* guard alone, text that is no JSON, JSON of another shape, a wrb.fr frame
\* with empty or missing candidates or a payload that is no JSON, frames of
\* the auxiliary RPCs), the call returns a string.
C13_NeverRaises ==
    probe.op = "parseGeminiResponse.done" => probe.kind = "ok"

C13_Witness ==
    /\ Decoding("fallback")
    /\ probe.t = JSONstringify(JArr(<<WrbFrame(JNull, <<"not", Sp, "json">>)>>))
    /\ probe.kind = "ok"

\* C14: the response )]}' + line break + length line + line break +
\* JSON([["wrb.fr", null, JSON([null, [c, r], null, null, [[rc, [t]]]])]])
\* decodes to exactly t, for multi-line, quoted and non-ASCII t as well.
C14_RoundTrip ==
    Decoding("mock") => probe.kind = "ok" /\ probe.out = probe.t

C14_Witness ==
    /\ Decoding("mock")
    /\ Contains(probe.t, NL)
    /\ probe.out = probe.t

\* C15: a response with a wrb.fr frame whose payload has candidates decodes
\* to the first text of the first candidate, whatever further candidates,
\* length-marker lines, blank lines and frames after the wrb.fr frame
\* (di, af.httprm, e) it holds.
C15_FirstCandidateText ==
    Decoding("chat") => probe.kind = "ok" /\ probe.out = probe.t

C15_Witness ==
    /\ Decoding("chat")
    /\ Contains(probe.text, "Second") /\ Contains(probe.text, "af.httprm") /\ Contains(probe.text, "e")
    /\ Head(probe.text) = XSSI /\ probe.text[3] = "107"
    /\ probe.out = probe.t

Encoded == probe.op = "formatGeminiRequestBody.done"
AtSep == <<Amp, "at", Eq>>

\* body.split("&at=").length
SplitParts(body) ==
    1 + Cardinality({i \in 1..(Len(body) - 2) : SubSeq(body, i, i + 2) = AtSep})

\* what stands between "f.req=" and "&at=" + nonce
FReqPart(body, nonceValue) == SubSeq(body, 3, Len(body) - Len(nonceValue) - 3)

\* 'f.req=' + urlEncode(outer) + '&at=' + nonce with outer = [null, string]
\* and the string = [[formattedMessage], null, contextArray]
BodyShape(body, options, nonceValue) ==
    /\ body = <<"f.req", Eq>> \o FReqPart(body, nonceValue) \o AtSep \o nonceValue
    /\ ~Contains(FReqPart(body, nonceValue), Amp)
    /\ DecodeFReq(body).ok
    /\ DecodeFReq(body).outer.a[1] = JNull
    /\ DecodeFReq(body).inner =
          JArr(<<JArr(<<JStr(formatMessage(options.message, options.systemPrompt))>>),
                 JNull, buildContextArray(options)>>)
    /\ Len(buildContextArray(options).a) = 3

\* C17 as stated: for every turn and every nonce the body has this shape
\* and splits on "&at=" into exactly two parts.
C17_BodySplitsInTwo ==
    Encoded => /\ BodyShape(probe.out, probe.options, probe.nonceValue)
               /\ SplitParts(probe.out) = 2

\* C17 amended: the body has this shape for every turn and every nonce;
\* it splits on "&at=" into exactly two parts when the nonce, which is
\* appended as it is, does not itself contain "&at=".
C17_BodyShapeAndSplit ==
    Encoded => /\ BodyShape(probe.out, probe.options, probe.nonceValue)
               /\ SplitParts(AtSep \o probe.nonceValue) = 2 => SplitParts(probe.out) = 2
               /\ SplitParts(probe.out) = SplitParts(AtSep \o probe.nonceValue)

C17_Witness ==
    /\ Encoded
    /\ Contains(probe.options.message, Amp)
    /\ probe.options.systemPrompt.t = "string" /\ probe.options.conversationId.t = "string"
    /\ ~Contains(probe.nonceValue, Amp)
    /\ SplitParts(probe.out) = 2

C19_FormatMessage ==
    probe.op = "formatMessage.done" =>
        LET m == probe.options.message
            s == probe.options.systemPrompt
        IN  IF s.t = "string" /\ s.s # <<>>
            THEN probe.out = <<"SYSTEM", Colon, NL>> \o s.s \o <<NL, NL, "USER", Colon, NL>> \o m
            ELSE probe.out = m

C19_Witness ==
    /\ probe.op = "formatMessage.done"
    /\ Contains(probe.options.message, NL)
    /\ probe.options.systemPrompt = JStr(<<"System", NL, "Prompt">>)
    /\ Len(probe.out) = Len(probe.options.message) + 11

\* ---------------------------------------------------------------- C20
QueryNames == {"bl", "hl", "rt", "_reqid"}

\* C20 as stated: the query of every chat POST carries bl = the backend
\* version, hl = "en" (a call names no language), rt = "c" and _reqid = a
\* decimal integer in [0, 1000000), as buildGeminiSearchParams builds them.
C20_QueryParams ==
    \A c \in Callers :
        req[c].method = "POST" =>
           /\ req[c].reqid \in 0..999999
           /\ \A n \in QueryNames :
                 /\ HasParam(req[c].query, n)
                 /\ GetParam(req[c].query, n) =
                       GetParam(buildGeminiSearchParams(req[c].bl, JUndef, req[c].reqid), n)

\* ---------------------------------------------------------------- C21
AppliedTwice == probe.op = "updateCookies.twice" /\ probe.before.hasGemini

\* the entry names a cookie the map does not hold or holds with another value
Differs(cookies, e) ==
    \/ ~HasCookie(cookies, EntryName(e))
    \/ CookieValue(cookies, EntryName(e)) # EntryValue(e)

\* C21 as stated: saveConfig is invoked for a response if and only if at
\* least one Set-Cookie value differs from the stored value, and a second
\* response with the same Set-Cookie entries persists nothing.
C21_PersistIffDiffers ==
    /\ Applied =>
          (probe.changed <=>
              \E i \in 1..Len(probe.setCookies) :
                 Differs(probe.before.cookies, probe.setCookies[i]))
    /\ AppliedTwice => ~probe.changedAgain

\* C21 (amended): saveConfig is invoked for a response if and only if at
\* least one Set-Cookie entry with a non-empty name and value differs from
\* the stored value; a second response with the same entries persists again
\* if and only if two such entries name one cookie with different values.
C21_PersistIffAcceptedDiffers ==
    LET es == UsableOf(probe.setCookies) IN
    /\ Applied =>
          (probe.changed <=> \E i \in 1..Len(es) : Differs(probe.before.cookies, es[i]))
    /\ AppliedTwice =>
          (probe.changedAgain <=>
              \E i \in 1..Len(es) : \E j \in 1..Len(es) :
                 /\ EntryName(es[i]) = EntryName(es[j])
                 /\ EntryValue(es[i]) # EntryValue(es[j]))

\* a rotation was persisted and the same entries, applied again, were not
C21_Witness ==
    /\ AppliedTwice
    /\ probe.changed /\ ~probe.changedAgain
    /\ saved = config
    /\ Len(probe.setCookies) = 2

\* ---------------------------------------------------------------------
\* Properties of the command-line run, under SpecRun and SpecRunFair
\* ---------------------------------------------------------------------
InAgent == run.op = "runAgentMode"
EarlyStops == {"done", "llmError", "parseError", "noCommands", "stop"}

\* C22: an agent run ends, after at most 10 iterations and so at most 10
\* requests to the LLM (one per iteration, whatever the iteration then does),
\* and it ends at once on DONE, an LLM error, a parse error, an empty
\* command list or the user's "stop".
C22_TerminatesWithinTen ==
    /\ [](InAgent =>
            /\ run.iteration <= 10
            /\ run.requests = run.iteration
            /\ run.pc = "ended" =>
                  \/ run.reason \in EarlyStops
                  \/ run.reason = "max" /\ run.iteration = 10)
    /\ [][InAgent /\ run.pc = "ended" => run' = run]_vars
    /\ <>(run.pc = "ended")

\* the tenth iteration was a skipped one and the run ended on the limit
C22_Witness ==
    /\ InAgent /\ run.pc = "ended" /\ run.reason = "max"
    /\ run.requests = 10
    /\ run.lastOutput = MsgSkipped

C30_StopAtFirstFailure ==
    /\ Len(run.results) <= Len(run.commands)
    /\ \A k \in 1..Len(run.results) :
          /\ run.results[k].command = run.commands[k].command
          /\ run.results[k].success <=> run.results[k].exitCode = 0
          /\ k < Len(run.results) => run.results[k].success
    /\ run.pc = "exec" =>
          /\ Len(run.results) = run.i - 1
          /\ \A k \in 1..Len(run.results) : run.results[k].success
    /\ (run.op = "executeCommands" /\ run.pc = "ended") =>
          \/ Len(run.results) = Len(run.commands)
          \/ ~run.results[Len(run.results)].success

\* a batch of two commands returned after its first command failed
C30_Witness ==
    /\ run.op = "executeCommands" /\ run.pc = "ended"
    /\ Len(run.commands) = 2 /\ Len(run.results) = 1
    /\ run.results[1].exitCode = 127

\* ---------------------------------------------------------------- C27
\* the steps of a call between the bootstrap response and the POST
AfterBootstrap(c) ==
    /\ gets[c] = 1
    /\ pc[c] \in {"getSaving", "getUpdated", "getBody", "gotNonce"}

\* C27: the Cookie header of the chat POST is built from the cookie map as
\* it stands after the Set-Cookie entries of the bootstrap response of the
\* same call were applied: the map does not change between that application
\* and the POST, and the POST carries the header of the map at that moment.
C27_PostCookiesAfterBootstrap ==
    /\ [](\A c \in Callers :
             pc[c] = "awaitPost" => req[c].cookie = getCookieHeader(config))
    /\ [][\A c \in Callers : AfterBootstrap(c) => config' = config]_vars

\* a POST in flight whose call's bootstrap response rotated a cookie that
\* was persisted: the header carries the rotated value
C27_Witness ==
    \E c \in Callers :
        /\ pc[c] = "awaitPost"
        /\ gets[c] = 1
        /\ Contains(trace[c], "save")
        /\ Contains(req[c].cookie, "r1")
        /\ ~Contains(req[c].cookie, V0[1])

\* ---------------------------------------------------------------- C28
\* the call of caller c fetched the bootstrap page and ended in an error
\* before any POST: the page's status was not 2xx, its text did not arrive,
\* or it held no nonce
BootstrapFailed(c) ==
    /\ pc[c] = "done"
    /\ result[c].kind = "error"
    /\ gets[c] = 1
    /\ posts[c] = 0
    /\ Contains(trace[c], "cookies")

\* C28: nonce and backend version are cached together: a cached nonce comes
\* with a cached, non-empty version; and a bootstrap that failed leaves both
\* uncached, while the Set-Cookie entries of its response have been applied
\* to the cookie map and the map has been persisted.
C28_CachedTogether ==
    /\ snlm0e # <<>> => bl # <<>>
    /\ snlm0e = <<>> => bl = <<>>
    /\ \A c \in Callers :
          (BootstrapFailed(c) /\ ~cachedAtStart[c]) =>
             /\ snlm0e = <<>>
             /\ bl = <<>>
             /\ saved = config
             /\ tomlContent[c] = NoToml

\* a bootstrap answered with a non-2xx status whose response rotated a
\* cookie: the rotation is in the map and persisted, nothing is cached;
\* and, in another state, a nonce cached from a page that names no version
C28_Witness ==
    \E c \in Callers :
        /\ BootstrapFailed(c)
        /\ ~ResponseOk(resp[c].status)
        /\ Contains(trace[c], "save")
        /\ HasCookie(config.cookies, PSIDTS)
        /\ CookieValue(config.cookies, PSIDTS) = <<"r1">>
        /\ saved = config
        /\ snlm0e = <<>>

C28_WitnessCached ==
    \E c \in Callers :
        /\ pc[c] = "gotNonce"
        /\ page[c] = PageNonce1
        /\ snlm0e = <<"n1">>
        /\ bl = DefaultBL

\* ---------------------------------------------------------------- C29
\* where in a page the secondary key is followed by a value and a closing
\* quote, and where the prefix is followed by at least one character
CfbAt(text) ==
    {i \in 1..Len(text) : /\ text[i] = KeyBL
                          /\ RunLen(text, i + 1) >= 1
                          /\ i + RunLen(text, i + 1) < Len(text)}
LooseAt(text) == {i \in 1..Len(text) : text[i] = BLPrefix /\ RunLen(text, i + 1) >= 1}
Least(S) == CHOOSE i \in S : \A j \in S : i <= j

\* the version the three-step fallback selects from a page
ExpectedBL(text) ==
    IF CfbAt(text) # {}
    THEN SubSeq(text, Least(CfbAt(text)) + 1,
                Least(CfbAt(text)) + RunLen(text, Least(CfbAt(text)) + 1))
    ELSE IF LooseAt(text) # {}
    THEN SubSeq(text, Least(LooseAt(text)),
                Least(LooseAt(text)) + RunLen(text, Least(LooseAt(text)) + 1))
    ELSE DefaultBL

\* C29: the version cached at bootstrap is the value of the secondary key
\* when the page has one, otherwise the first loose match of the prefix,
\* otherwise the default string; only a bootstrap changes it, and every POST
\* sent afterwards carries it as bl.
C29_VersionFallback ==
    /\ [](\A c \in Callers :
             /\ (pc[c] = "gotNonce" /\ gets[c] = 1) => bl = ExpectedBL(page[c])
             /\ pc[c] = "awaitPost" =>
                   /\ bl # <<>>
                   /\ req[c].bl = bl
                   /\ GetParam(req[c].query, "bl") = bl)
    /\ [][bl' # bl => \E c \in Callers : pc[c] = "getBody" /\ pc'[c] = "gotNonce"]_vars

\* a later call, its nonce cached, sends the version an earlier bootstrap
\* took from the first loose match of a page with two of them
C29_Witness ==
    \E c \in Callers :
        /\ pc[c] = "awaitPost"
        /\ cachedAtStart[c]
        /\ gets[c] = 0
        /\ req[c].bl = <<BLPrefix, "2025">>
        /\ snlm0e = <<"n2">>

\* a page that has both: the secondary key's value wins over the loose match
C29_WitnessBoth ==
    \E c \in Callers :
        /\ pc[c] = "awaitPost"
        /\ page[c] = PageBoth
        /\ req[c].bl = <<"bl1">>

\* ---------------------------------------------------------------- C25
\* the call of caller c has finished and persisted a rotation on its way
FinishedRotated(c) == pc[c] = "done" /\ Contains(trace[c], "save")

\* C25: when the calls of two callers overlap and both rotated cookies, then
\* once both have finished the persisted cookie map equals the cookie map in
\* memory: no rotation is lost to the order in which the writes complete.
C25_NoLostRotation ==
    (\A c \in Callers : FinishedRotated(c)) => saved.cookies = config.cookies

\* ---------------------------------------------------------------------
\* Properties of the configuration files, under SpecConfig
\* ---------------------------------------------------------------------
\* loadConfig has just returned what the last saveConfig call of a caller
\* wrote: it read the file that call wrote
LoadedWhatWasSaved ==
    /\ probe.op = "loaded" /\ probe.fresh /\ probe.last = "save"
    /\ ~probe.loaded.isNull
    /\ probe.loaded.from = (IF probe.global THEN "global" ELSE "local")

SectionKept(name) ==
    Has(probe.arg, name) =>
       /\ Has(probe.loaded.config, name)
       /\ probe.loaded.config[name] = probe.arg[name]

LimitsKept(name) ==
    Has(probe.arg, name) =>
       \A k \in DOMAIN probe.arg[name] : probe.loaded.config[name][k] = probe.arg[name][k]

\* C24: saveConfig followed by loadConfig is a round trip: the loaded
\* configuration equals the saved one in active_provider, in every provider
\* section that was saved (ollama, gemini, lm_studio) and in the default and
\* agent limits.
C24_RoundTrip ==
    LoadedWhatWasSaved =>
       /\ Has(probe.arg, "active_provider") =>
             probe.loaded.config.active_provider = probe.arg.active_provider
       /\ SectionKept("ollama")
       /\ SectionKept("gemini")
       /\ SectionKept("lm_studio")
       /\ LimitsKept("default")
       /\ LimitsKept("agent")

\* the same without the lm_studio section
C24_RoundTripOtherSections ==
    LoadedWhatWasSaved =>
       /\ Has(probe.arg, "active_provider") =>
             probe.loaded.config.active_provider = probe.arg.active_provider
       /\ SectionKept("ollama")
       /\ SectionKept("gemini")
       /\ LimitsKept("default")
       /\ LimitsKept("agent")

\* C26: after the provider persisted a rotation, the loadConfig of a fresh
\* process returns a cookie map that holds the rotated values, whichever
\* file the running configuration had been loaded from.
C26_RotationSurvivesRestart ==
    (probe.op = "loaded" /\ probe.fresh /\ probe.last = "rotation") =>
       /\ ~probe.loaded.isNull
       /\ \A i \in 1..Len(probe.rotated) :
             /\ HasCookie(GeminiOf(probe.loaded.config).cookies, probe.rotated[i].name)
             /\ CookieValue(GeminiOf(probe.loaded.config).cookies, probe.rotated[i].name)
                   = probe.rotated[i].value

\* the same for a configuration that came from the global file
C26_RotationSurvivesGlobal ==
    (probe.op = "loaded" /\ probe.fresh /\ probe.last = "rotation"
       /\ ~Readable(probe.files.local)) =>
       /\ ~probe.loaded.isNull
       /\ GeminiOf(probe.loaded.config).cookies = probe.rotated

====
